---------------------------- MODULE Spec2Model ----------------------------
(***************************************************************************)
(* Metrics aggregation pipeline of the GitHub productivity dashboard:      *)
(* the entity records of models/core.py, the metric records of             *)
(* models/metrics.py and the aggregators of utils/metrics_calculator.py    *)
(* and utils/review_metrics_processor.py.                                  *)
(*                                                                         *)
(* The aggregators are stateless: a state of the model is the argument     *)
(* lists a caller holds, the name of the aggregator called last (op) and   *)
(* what that call produced (result: a returned record or a raised error).  *)
(*                                                                         *)
(* GitHubClient._make_request of utils/github_client.py is the one part    *)
(* with state of its own: request holds the retry loop of a call (attempt, *)
(* budget, clock, the client's rate-limit fields) and the log of the HTTP  *)
(* requests sent and of the sleeps.                                        *)
(*                                                                         *)
(* A datetime is an integer number of ticks since 1970-01-01T00:00, the    *)
(* tick being the resolution of the datetime type (the microsecond of the  *)
(* source); an hour holds TicksPerHour ticks.  A real-valued result        *)
(* (a mean, a percentage) is an exact fraction [num, den].                 *)
(***************************************************************************)
EXTENDS Integers, Sequences, FiniteSets, TLC

VARIABLES commits, pull_requests, issues, period, target_author,
          period_start, period_end, op, result, request

vars == <<commits, pull_requests, issues, period, target_author,
          period_start, period_end, op, result, request>>

---------------------------------------------------------------------------
(* Bounds of the model *)

\* ticks (smallest datetime steps) in one hour
TicksPerHour == 2
\* longest pull-request list
MaxPRs == 2
\* longest issue list
MaxIssues == 2
\* longest commit list
MaxCommits == 3
\* longest commit list of a time series
MaxSeriesCommits == 2
\* longest list of each kind of a productivity aggregate, and longest
\* pull-request list of a bucket span
MaxEach == 1
\* the largest max_retries of a call of _make_request
MaxRetries == 2
\* the longest commit list of the hours of day
MaxHourCommits == 5

---------------------------------------------------------------------------
(* Time and calendar (datetime, timedelta) *)

HoursPerDay == 24

TicksPerDay == HoursPerDay * TicksPerHour

\* Optional[x]: None, or a present value
None == <<>>

Some(x) == <<x>>

Get(o) == o[1]

\* int(x): truncation toward zero of the quotient a / b, b > 0
TruncDiv(a, b) == IF a >= 0 THEN a \div b ELSE -((-a) \div b)

IsLeap(y) == (y % 4 = 0) /\ ((y % 100 # 0) \/ (y % 400 = 0))

\* day number (days since 1970-01-01) of the proleptic Gregorian date y-m-d
DaysFromCivil(y, m, d) ==
    LET yy  == IF m <= 2 THEN y - 1 ELSE y
        era == yy \div 400
        yoe == yy - era * 400
        mp  == IF m > 2 THEN m - 3 ELSE m + 9
        doy == (153 * mp + 2) \div 5 + d - 1
        doe == yoe * 365 + yoe \div 4 - yoe \div 100 + doy
    IN  era * 146097 + doe - 719468

\* the date [year, month, day] of a day number
CivilFromDays(z0) ==
    LET z   == z0 + 719468
        era == z \div 146097
        doe == z - era * 146097
        yoe == (doe - doe \div 1460 + doe \div 36524 - doe \div 146096) \div 365
        doy == doe - (365 * yoe + yoe \div 4 - yoe \div 100)
        mp  == (5 * doy + 2) \div 153
        d   == doy - (153 * mp + 2) \div 5 + 1
        m   == IF mp < 10 THEN mp + 3 ELSE mp - 9
        y   == yoe + era * 400 + (IF m <= 2 THEN 1 ELSE 0)
    IN  [year |-> y, month |-> m, day |-> d]

\* datetime(y, m, d, h) plus k ticks
DateTime(y, m, d, h, k) == DaysFromCivil(y, m, d) * TicksPerDay + h * TicksPerHour + k

DayOf(t) == t \div TicksPerDay

\* datetime.hour
HourOf(t) == (t % TicksPerDay) \div TicksPerHour

\* datetime.year
YearOf(t) == CivilFromDays(DayOf(t)).year

\* datetime.isoweekday(): Monday = 1 .. Sunday = 7
IsoWeekday(day) == ((day + 3) % 7) + 1

\* number of ISO weeks of ISO year y
IsoWeeksInYear(y) ==
    LET jan1 == IsoWeekday(DaysFromCivil(y, 1, 1))
    IN  IF jan1 = 4 \/ (jan1 = 3 /\ IsLeap(y)) THEN 53 ELSE 52

\* datetime.isocalendar()[1]: the ISO week number
IsoWeek(t) ==
    LET day == DayOf(t)
        y   == YearOf(t)
        doy == day - DaysFromCivil(y, 1, 1) + 1
        w   == (doy - IsoWeekday(day) + 10) \div 7
    IN  IF w < 1 THEN IsoWeeksInYear(y - 1)
        ELSE IF w > IsoWeeksInYear(y) THEN 1
        ELSE w

---------------------------------------------------------------------------
(* Real-valued results as exact fractions *)

Frac(n, d) == [num |-> n, den |-> d]

FracEq(a, b) == a.num * b.den = b.num * a.den

FracLeq(a, b) == a.num * b.den <= b.num * a.den

RECURSIVE SumSeq(_)
SumSeq(s) ==
    IF s = <<>> THEN 0
    ELSE IF Len(s) = 1 THEN s[1]
    ELSE LET h == Len(s) \div 2
         IN  SumSeq(SubSeq(s, 1, h)) + SumSeq(SubSeq(s, h + 1, Len(s)))

\* statistics.mean of a non-empty list of numbers
Mean(s) == Frac(SumSeq(s), Len(s))

\* [f(x) for x in s if P(x)]
SelectMap(s, P(_), f(_)) ==
    LET t == SelectSeq(s, P) IN [i \in 1..Len(t) |-> f(t[i])]

\* sum(1 for x in s if P(x)), len([x for x in s if P(x)])
Count(s, P(_)) == Cardinality({i \in DOMAIN s : P(s[i])})

---------------------------------------------------------------------------
(* Outcome of a call *)

NoResult == [status |-> "none"]

Return(v) == [status |-> "returned", value |-> v]

Raise(e) == [status |-> "raised", error |-> e]

Returned == result.status = "returned"

Raised == result.status = "raised"

---------------------------------------------------------------------------
(* models/core.py: Commit *)

\* Commit.__post_init__: the constructor accepts commit
Commit_post_init(commit) ==
    /\ ~(commit.sha = "")
    /\ ~(commit.author = "")
    /\ ~(commit.additions < 0 \/ commit.deletions < 0)
    /\ ~(commit.files_changed < 0)

---------------------------------------------------------------------------
(* models/metrics.py: CommitMetrics *)

\* CommitMetrics.__post_init__: the record, or the ValueError it raises
CommitMetrics(m) ==
    IF m.total_commits < 0
    THEN Raise("ValueError: Total commits must be non-negative")
    ELSE IF \E val \in {m.average_additions, m.average_deletions,
                         m.average_files_changed, m.commit_message_length_avg} :
                ~FracLeq(Frac(0, 1), val)
    THEN Raise("ValueError: Average metrics must be non-negative")
    ELSE Return(m)

---------------------------------------------------------------------------
(* utils/metrics_calculator.py: MetricsCalculator.calculate_commit_metrics *)

\* the empty dict
EmptyDict == <<>>

Incr_Assign(freq, key) == (key :> 1) @@ freq

\* defaultdict(int): freq[key] += 1
Incr(freq, key) ==
    IF key \in DOMAIN freq
    THEN [freq EXCEPT ![key] = @ + 1]
    ELSE freq @@ (key :> 1)

\* strftime('%Y-%m-%d')
day_key(t) ==
    LET c == CivilFromDays(DayOf(t)) IN <<c.year, c.month, c.day>>

\* f"{timestamp.year}-W{timestamp.isocalendar()[1]:02d}"
week_key(t) == <<YearOf(t), IsoWeek(t)>>

\* strftime('%Y-%m')
month_key(t) ==
    LET c == CivilFromDays(DayOf(t)) IN <<c.year, c.month>>

\* str(timestamp.hour)
hour_key(t) == HourOf(t)

RECURSIVE FrequencyLoop(_, _)
\* the loop over the commits, from the frequency tables so far
FrequencyLoop(frequency, rest) ==
    IF rest = <<>> THEN frequency
    ELSE LET t == Head(rest).timestamp
         IN  FrequencyLoop([daily   |-> Incr(frequency.daily, day_key(t)),
                            weekly  |-> Incr(frequency.weekly, week_key(t)),
                            monthly |-> Incr(frequency.monthly, month_key(t)),
                            hourly  |-> Incr(frequency.hourly, hour_key(t))],
                           Tail(rest))

_calculate_commit_frequency(commit_list) ==
    FrequencyLoop([daily |-> EmptyDict, weekly |-> EmptyDict,
                   monthly |-> EmptyDict, hourly |-> EmptyDict], commit_list)

RECURSIVE CounterOf(_, _, _)
\* Counter(hours): the counts and the keys in order of first occurrence
CounterOf(counts, order, rest) ==
    IF rest = <<>> THEN [counts |-> counts, order |-> order]
    ELSE LET h == HourOf(Head(rest).timestamp)
         IN  CounterOf(Incr(counts, h),
                       IF h \in DOMAIN counts THEN order ELSE Append(order, h),
                       Tail(rest))

RECURSIVE MostCommon_TiesByHour(_, _, _)
MostCommon_TiesByHour(counts, order, n) ==
    IF n = 0 \/ order = <<>> THEN <<>>
    ELSE LET best == CHOOSE i \in DOMAIN order :
                        \A j \in DOMAIN order :
                            \/ counts[order[j]] < counts[order[i]]
                            \/ /\ counts[order[j]] = counts[order[i]]
                               /\ order[i] <= order[j]
             others == [i \in 1..(Len(order) - 1) |->
                           IF i < best THEN order[i] ELSE order[i + 1]]
         IN  <<order[best]>> \o MostCommon_TiesByHour(counts, others, n - 1)

RECURSIVE MostCommon(_, _, _)
\* Counter.most_common(n): highest count first, equal counts in key order
MostCommon(counts, order, n) ==
    IF n = 0 \/ order = <<>> THEN <<>>
    ELSE LET best == CHOOSE i \in DOMAIN order :
                        /\ \A j \in DOMAIN order : counts[order[j]] <= counts[order[i]]
                        /\ \A j \in 1..(i - 1) : counts[order[j]] < counts[order[i]]
             others == [i \in 1..(Len(order) - 1) |->
                           IF i < best THEN order[i] ELSE order[i + 1]]
         IN  <<order[best]>> \o MostCommon(counts, others, n - 1)

top_n == 3

_find_most_active_hours(commit_list) ==
    LET c == CounterOf(EmptyDict, <<>>, commit_list)
    IN  MostCommon(c.counts, c.order, top_n)

CommitAdditions(commit) == commit.additions

CommitDeletions(commit) == commit.deletions

CommitFiles(commit) == commit.files_changed

CommitMessageLength(commit) == Len(commit.message)

AnyCommit(commit) == TRUE

calculate_commit_metrics(commit_list) ==
    IF commit_list = <<>>
    THEN CommitMetrics([total_commits |-> 0, commit_frequency |-> EmptyDict,
                        average_additions |-> Frac(0, 1),
                        average_deletions |-> Frac(0, 1),
                        average_files_changed |-> Frac(0, 1),
                        most_active_hours |-> <<>>,
                        commit_message_length_avg |-> Frac(0, 1)])
    ELSE LET total_commits == Len(commit_list)
             Total(f(_))   == SumSeq(SelectMap(commit_list, AnyCommit, f))
         IN  CommitMetrics(
                 [total_commits |-> total_commits,
                  commit_frequency |-> _calculate_commit_frequency(commit_list),
                  average_additions |-> Frac(Total(CommitAdditions), total_commits),
                  average_deletions |-> Frac(Total(CommitDeletions), total_commits),
                  average_files_changed |-> Frac(Total(CommitFiles), total_commits),
                  most_active_hours |-> _find_most_active_hours(commit_list),
                  commit_message_length_avg |->
                      Frac(Total(CommitMessageLength), total_commits)])

---------------------------------------------------------------------------
(* models/core.py: PullRequest *)

\* PullRequest.__post_init__: the constructor accepts pr
PullRequest_post_init(pr) ==
    /\ ~(pr.number <= 0)
    /\ ~(pr.title = "")
    /\ ~(pr.author = "")
    /\ ~(pr.additions < 0 \/ pr.deletions < 0)
    /\ ~(pr.commits < 0)

is_merged_StateOnly(pr) == pr.state = "merged"

\* PullRequest.is_merged
is_merged(pr) == pr.state = "merged" /\ pr.merged_at # None

\* PullRequest.time_to_merge: hours, truncated toward zero, or None
time_to_merge(pr) ==
    IF pr.merged_at # None
    THEN Some(TruncDiv(Get(pr.merged_at) - pr.created_at, TicksPerHour))
    ELSE None

---------------------------------------------------------------------------
(* models/metrics.py: PRMetrics *)

\* PRMetrics.__post_init__: the record, or the ValueError it raises
PRMetrics(m) ==
    IF \E val \in {m.total_prs, m.merged_prs, m.closed_prs, m.open_prs} : val < 0
    THEN Raise("ValueError: PR counts must be non-negative")
    ELSE IF m.total_prs # (m.merged_prs + m.closed_prs + m.open_prs)
    THEN Raise("ValueError: PR counts must sum to total")
    ELSE IF ~(FracLeq(Frac(0, 1), m.merge_rate) /\ FracLeq(m.merge_rate, Frac(100, 1)))
    THEN Raise("ValueError: Merge rate must be between 0 and 100")
    ELSE Return(m)

---------------------------------------------------------------------------
(* utils/metrics_calculator.py: MetricsCalculator.calculate_pr_metrics *)

HasMergeTime(pr) == time_to_merge(pr) # None

MergeTimeOf(pr) == Get(time_to_merge(pr))

PRAdditions(pr) == pr.additions

PRDeletions(pr) == pr.deletions

PRCommits(pr) == pr.commits

AnyPR(pr) == TRUE

IsClosedPR(pr) == pr.state = "closed" /\ ~is_merged(pr)

IsOpenPR(pr) == pr.state = "open"

merge_rate_AsRatio(merged_prs, total_prs) ==
    IF total_prs > 0 THEN Frac(merged_prs, total_prs) ELSE Frac(0, 1)

\* (merged_prs / total_prs) * 100 if total_prs > 0 else 0.0
merge_rate(merged_prs, total_prs) ==
    IF total_prs > 0 THEN Frac(merged_prs * 100, total_prs) ELSE Frac(0, 1)

calculate_pr_metrics(prs) ==
    IF prs = <<>>
    THEN PRMetrics([total_prs |-> 0, merged_prs |-> 0, closed_prs |-> 0,
                    open_prs |-> 0, average_time_to_merge |-> None,
                    average_additions |-> Frac(0, 1),
                    average_deletions |-> Frac(0, 1),
                    average_commits_per_pr |-> Frac(0, 1),
                    merge_rate |-> Frac(0, 1)])
    ELSE LET total_prs   == Len(prs)
             merged_prs  == Count(prs, is_merged)
             closed_prs  == Count(prs, IsClosedPR)
             open_prs    == Count(prs, IsOpenPR)
             merge_times == SelectMap(prs, HasMergeTime, MergeTimeOf)
         IN  PRMetrics([total_prs |-> total_prs,
                        merged_prs |-> merged_prs,
                        closed_prs |-> closed_prs,
                        open_prs |-> open_prs,
                        average_time_to_merge |->
                            IF merge_times # <<>> THEN Some(Mean(merge_times)) ELSE None,
                        average_additions |->
                            Frac(SumSeq(SelectMap(prs, AnyPR, PRAdditions)), total_prs),
                        average_deletions |->
                            Frac(SumSeq(SelectMap(prs, AnyPR, PRDeletions)), total_prs),
                        average_commits_per_pr |->
                            Frac(SumSeq(SelectMap(prs, AnyPR, PRCommits)), total_prs),
                        merge_rate |-> merge_rate(merged_prs, total_prs)])

---------------------------------------------------------------------------
(* models/core.py: Issue *)

\* Issue.__post_init__: the constructor accepts issue
Issue_post_init(issue) ==
    /\ ~(issue.number <= 0)
    /\ ~(issue.title = "")
    /\ ~(issue.author = "")

is_closed_StateOnly(issue) == issue.state = "closed"

\* Issue.is_closed
is_closed(issue) == issue.state = "closed" /\ issue.closed_at # None

\* Issue.time_to_close: hours, truncated toward zero, or None
time_to_close(issue) ==
    IF issue.closed_at # None
    THEN Some(TruncDiv(Get(issue.closed_at) - issue.created_at, TicksPerHour))
    ELSE None

---------------------------------------------------------------------------
(* models/metrics.py: IssueMetrics *)

\* IssueMetrics.__post_init__: the record, or the ValueError it raises
IssueMetrics(m) ==
    IF \E val \in {m.total_issues, m.closed_issues, m.open_issues,
                    m.issues_created, m.issues_assigned} : val < 0
    THEN Raise("ValueError: Issue counts must be non-negative")
    ELSE IF m.total_issues # (m.closed_issues + m.open_issues)
    THEN Raise("ValueError: Issue counts must sum to total")
    ELSE IF ~(FracLeq(Frac(0, 1), m.resolution_rate)
              /\ FracLeq(m.resolution_rate, Frac(100, 1)))
    THEN Raise("ValueError: Resolution rate must be between 0 and 100")
    ELSE Return(m)

---------------------------------------------------------------------------
(* utils/review_metrics_processor.py:                                      *)
(* ReviewMetricsProcessor.calculate_issue_metrics                          *)

\* truthiness of an Optional[str]: neither None nor the empty string
Truthy(o) == o # None /\ Get(o) # ""

HasCloseTime(issue) == time_to_close(issue) # None

CloseTimeOf(issue) == Get(time_to_close(issue))

\* author_issues: the issues the target authored, or all of them
author_issues(all_issues, author) ==
    IF Truthy(author)
    THEN LET ByAuthor(issue) == issue.author = Get(author)
         IN  SelectSeq(all_issues, ByAuthor)
    ELSE all_issues

\* assigned_issues: the issues assigned to the target, or to anyone
assigned_issues(all_issues, author) ==
    IF Truthy(author)
    THEN LET ToAuthor(issue) == issue.assignee = author
         IN  SelectSeq(all_issues, ToAuthor)
    ELSE LET Assigned(issue) == Truthy(issue.assignee)
         IN  SelectSeq(all_issues, Assigned)

resolution_rate_OfOpen(closed_issues, total_issues) ==
    IF total_issues > 0
    THEN Frac((total_issues - closed_issues) * 100, total_issues)
    ELSE Frac(0, 1)

\* (closed_issues / total_issues) * 100 if total_issues > 0 else 0.0
resolution_rate(closed_issues, total_issues) ==
    IF total_issues > 0 THEN Frac(closed_issues * 100, total_issues) ELSE Frac(0, 1)

\* the counts and rates of a non-empty list, given the two filtered lists
IssueMetricsFrom(all_issues, authored, assigned) ==
    LET total_issues  == Len(all_issues)
        closed_issues == Count(all_issues, is_closed)
        open_issues   == total_issues - closed_issues
        close_times   == SelectMap(all_issues, HasCloseTime, CloseTimeOf)
    IN  IssueMetrics([total_issues |-> total_issues,
                      closed_issues |-> closed_issues,
                      open_issues |-> open_issues,
                      average_time_to_close |->
                          IF close_times # <<>> THEN Some(Mean(close_times)) ELSE None,
                      resolution_rate |-> resolution_rate(closed_issues, total_issues),
                      issues_created |-> Len(authored),
                      issues_assigned |-> Len(assigned)])

EmptyIssueMetrics_NoEarlyReturn == Raise("ZeroDivisionError: division by zero")

\* the result for an empty list
EmptyIssueMetrics ==
    IssueMetrics([total_issues |-> 0, closed_issues |-> 0, open_issues |-> 0,
                  average_time_to_close |-> None, resolution_rate |-> Frac(0, 1),
                  issues_created |-> 0, issues_assigned |-> 0])

calculate_issue_metrics_OfAuthorOnly(all_issues, author) ==
    IF all_issues = <<>>
    THEN EmptyIssueMetrics
    ELSE IssueMetricsFrom(author_issues(all_issues, author),
                          author_issues(all_issues, author),
                          assigned_issues(all_issues, author))

calculate_issue_metrics(all_issues, author) ==
    IF all_issues = <<>>
    THEN EmptyIssueMetrics
    ELSE IssueMetricsFrom(all_issues,
                          author_issues(all_issues, author),
                          assigned_issues(all_issues, author))

---------------------------------------------------------------------------
(* models/core.py: Review;  models/metrics.py: ReviewMetrics *)

\* Review.__post_init__: the constructor accepts review
Review_post_init(review) ==
    /\ ~(review.reviewer = "")
    /\ review.state \in {"APPROVED", "CHANGES_REQUESTED", "COMMENTED"}

\* ReviewMetrics.__post_init__: the record, or the ValueError it raises
ReviewMetrics(m) ==
    IF \E val \in {m.total_reviews_given, m.total_reviews_received} : val < 0
    THEN Raise("ValueError: Review counts must be non-negative")
    ELSE IF ~(\A rate \in {m.approval_rate, m.change_request_rate,
                            m.review_participation_rate} :
                 FracLeq(Frac(0, 1), rate) /\ FracLeq(rate, Frac(100, 1)))
    THEN Raise("ValueError: All rates must be between 0 and 100")
    ELSE Return(m)

---------------------------------------------------------------------------
(* utils/review_metrics_processor.py:                                      *)
(* ReviewMetricsProcessor.calculate_review_metrics                         *)

\* the concatenation of a list of lists
Flatten(lists) ==
    LET upto[k \in 0..Len(lists)] ==
            IF k = 0 THEN <<>> ELSE upto[k - 1] \o lists[k]
    IN  upto[Len(lists)]

\* the ticks from pr.created_at to each review's submitted_at, in list order
_calculate_review_response_times(prs) ==
    Flatten([i \in DOMAIN prs |->
                [j \in DOMAIN prs[i].reviews |->
                    prs[i].reviews[j].submitted_at - prs[i].created_at]])

\* (count of the reviews in the given state / len(reviews)) * 100
StateRate(reviews, state) ==
    IF reviews = <<>> THEN Frac(0, 1)
    ELSE LET InState(r) == r.state = state
         IN  Frac(Len(SelectSeq(reviews, InState)) * 100, Len(reviews))

_calculate_approval_rate(reviews) == StateRate(reviews, "APPROVED")

_calculate_change_request_rate(reviews) == StateRate(reviews, "CHANGES_REQUESTED")

_calculate_participation_rate_OfEveryPR(prs, author) ==
    IF prs = <<>> THEN Frac(0, 1)
    ELSE IF Truthy(author)
    THEN LET Reviewed(pr) == \E j \in DOMAIN pr.reviews :
                                 pr.reviews[j].reviewer = Get(author)
         IN  Frac(Len(SelectSeq(prs, Reviewed)) * 100, Len(prs))
    ELSE LET HasReviews(pr) == pr.reviews # <<>>
         IN  Frac(Len(SelectSeq(prs, HasReviews)) * 100, Len(prs))

_calculate_participation_rate(prs, author) ==
    IF prs = <<>> THEN Frac(0, 1)
    ELSE IF Truthy(author)
    THEN LET NotOwn(pr)     == pr.author # Get(author)
             reviewable_prs == SelectSeq(prs, NotOwn)
             Reviewed(pr)   == \E j \in DOMAIN pr.reviews :
                                   pr.reviews[j].reviewer = Get(author)
         IN  IF reviewable_prs = <<>> THEN Frac(0, 1)
             ELSE Frac(Len(SelectSeq(reviewable_prs, Reviewed)) * 100,
                       Len(reviewable_prs))
    ELSE LET HasReviews(pr) == pr.reviews # <<>>
         IN  Frac(Len(SelectSeq(prs, HasReviews)) * 100, Len(prs))

\* The list objects of the pooling loop.  Object i, for i in 1..len(prs), is
\* the list pull_requests[i].reviews; the three lists the method creates come
\* after them.
all_reviews_object_FirstPR(prs) == 1

\* all_reviews = []: a list of its own
all_reviews_object(prs) == Len(prs) + 1

\* reviews_given = []
reviews_given_object(prs) == Len(prs) + 2

\* reviews_received = []
reviews_received_object(prs) == Len(prs) + 3

extend_Rebind(heap, obj, items) == [heap EXCEPT ![obj] = items]

\* list.extend: the object grows in place, under every name bound to it
extend(heap, obj, items) == [heap EXCEPT ![obj] = @ \o items]

\* the loop over pull_requests: the contents of the list objects and the
\* objects the three names are bound to, after the last iteration
PoolLoop(prs, author) ==
    LET n == Len(prs)
        ByTarget(r) == r.reviewer = Get(author)
        before == [heap |-> [o \in 1..(n + 3) |->
                                IF o <= n THEN prs[o].reviews ELSE <<>>],
                   all_reviews |-> all_reviews_object(prs),
                   reviews_given |-> reviews_given_object(prs),
                   reviews_received |-> reviews_received_object(prs)]
        after[k \in 0..n] ==
            IF k = 0 THEN before
            ELSE LET s  == after[k - 1]
                     h1 == extend(s.heap, s.all_reviews, s.heap[k])
                 IN  IF Truthy(author)
                     THEN LET h2 == extend(h1, s.reviews_given,
                                           SelectSeq(h1[k], ByTarget))
                              h3 == IF prs[k].author = Get(author)
                                    THEN extend(h2, s.reviews_received, h2[k])
                                    ELSE h2
                          IN  [s EXCEPT !.heap = h3]
                     ELSE [s EXCEPT !.heap = h1,
                                    !.reviews_given = s.all_reviews,
                                    !.reviews_received = s.all_reviews]
    IN  after[n]

\* the pull requests as the loop leaves them
PullRequestsAfterPooling(prs, author) ==
    [i \in DOMAIN prs |-> [prs[i] EXCEPT !.reviews = PoolLoop(prs, author).heap[i]]]

calculate_review_metrics(prs, author) ==
    IF prs = <<>>
    THEN ReviewMetrics([total_reviews_given |-> 0, total_reviews_received |-> 0,
                        average_review_time |-> None, approval_rate |-> Frac(0, 1),
                        change_request_rate |-> Frac(0, 1),
                        review_participation_rate |-> Frac(0, 1)])
    ELSE LET pool             == PoolLoop(prs, author)
             reviews_given    == pool.heap[pool.reviews_given]
             reviews_received == pool.heap[pool.reviews_received]
             pooled_prs       == PullRequestsAfterPooling(prs, author)
             review_times     == _calculate_review_response_times(pooled_prs)
         IN  ReviewMetrics(
                 [total_reviews_given |-> Len(reviews_given),
                  total_reviews_received |-> Len(reviews_received),
                  average_review_time |->
                      IF review_times # <<>>
                      THEN Some(Frac(SumSeq(review_times),
                                     Len(review_times) * TicksPerHour))
                      ELSE None,
                  approval_rate |-> _calculate_approval_rate(reviews_given),
                  change_request_rate |-> _calculate_change_request_rate(reviews_given),
                  review_participation_rate |->
                      _calculate_participation_rate(pooled_prs, author)])

---------------------------------------------------------------------------
(* models/metrics.py: MetricPeriod, VelocityPoint *)

MetricPeriod == {"daily", "weekly", "monthly", "quarterly"}

\* VelocityPoint.__post_init__: the record, or the ValueError it raises
VelocityPoint(m) ==
    IF \E val \in {m.commits, m.additions, m.deletions, m.pull_requests,
                    m.issues_closed} : val < 0
    THEN Raise("ValueError: All velocity metrics must be non-negative")
    ELSE Return(m)

---------------------------------------------------------------------------
(* utils/metrics_calculator.py: MetricsCalculator.generate_time_series_data *)

Min(a, b) == IF a <= b THEN a ELSE b

MinOf(s) == CHOOSE x \in {s[i] : i \in DOMAIN s} : \A i \in DOMAIN s : x <= s[i]

MaxOf(s) == CHOOSE x \in {s[i] : i \in DOMAIN s} : \A i \in DOMAIN s : s[i] <= x

\* timedelta(days=n)
Days(n) == n * TicksPerDay

\* the step of a granularity
delta(p) ==
    IF p = "daily" THEN Days(1)
    ELSE IF p = "weekly" THEN Days(7)
    ELSE IF p = "monthly" THEN Days(30)
    ELSE IF p = "quarterly" THEN Days(90)
    ELSE Days(1)

bucket_end_Unclipped(current, step, end_date) == current + step - 1

bucket_end_AtNextStart(current, step, end_date) == Min(current + step, end_date)

\* min(current + delta - timedelta(microseconds=1), end_date)
bucket_end(current, step, end_date) == Min(current + step - 1, end_date)

BucketLoop_Prepend(start_date, end_date, step) ==
    IF start_date <= end_date
    THEN LET n == (end_date - start_date) \div step + 1
         IN  [k \in 1..n |->
                 LET current == start_date + (n - k) * step
                 IN  <<current, bucket_end(current, step, end_date)>>]
    ELSE <<>>

\* while current <= end_date: append (current, bucket_end); current += delta.
\* The loop runs once for each current = start_date + k * step <= end_date.
BucketLoop(start_date, end_date, step) ==
    IF start_date <= end_date
    THEN [k \in 1..((end_date - start_date) \div step + 1) |->
             LET current == start_date + (k - 1) * step
             IN  <<current, bucket_end(current, step, end_date)>>]
    ELSE <<>>

_generate_time_buckets(start_date, end_date, p) ==
    BucketLoop(start_date, end_date, delta(p))

\* replace(hour=0, minute=0, second=0, microsecond=0)
StartOfDay(t) == DayOf(t) * TicksPerDay

\* replace(hour=23, minute=59, second=59, microsecond=999999)
EndOfDay(t) == DayOf(t) * TicksPerDay + TicksPerDay - 1

CommitTimestamp(commit) == commit.timestamp

CreatedAt(x) == x.created_at

AnyEntity(x) == TRUE

BucketPoint_ExclusiveEnd(commit_list, prs, issue_list, bucket) ==
    LET bucket_start      == bucket[1]
        bucket_last       == bucket[2]
        InBucket(c)       == bucket_start <= c.timestamp /\ c.timestamp < bucket_last
        CreatedIn(pr)     == bucket_start <= pr.created_at /\ pr.created_at < bucket_last
        ClosedIn(issue)   == /\ issue.closed_at # None
                             /\ bucket_start <= Get(issue.closed_at)
                             /\ Get(issue.closed_at) < bucket_last
        bucket_commits    == SelectSeq(commit_list, InBucket)
    IN  VelocityPoint([timestamp |-> bucket_start,
                       commits |-> Len(bucket_commits),
                       additions |-> SumSeq(SelectMap(bucket_commits, AnyEntity,
                                                      CommitAdditions)),
                       deletions |-> SumSeq(SelectMap(bucket_commits, AnyEntity,
                                                      CommitDeletions)),
                       pull_requests |-> Len(SelectSeq(prs, CreatedIn)),
                       issues_closed |-> Len(SelectSeq(issue_list, ClosedIn))])

BucketPoint_IssuesByCreation(commit_list, prs, issue_list, bucket) ==
    LET bucket_start      == bucket[1]
        bucket_last       == bucket[2]
        InBucket(c)       == bucket_start <= c.timestamp /\ c.timestamp <= bucket_last
        CreatedIn(x)      == bucket_start <= x.created_at /\ x.created_at <= bucket_last
        bucket_commits    == SelectSeq(commit_list, InBucket)
    IN  VelocityPoint([timestamp |-> bucket_start,
                       commits |-> Len(bucket_commits),
                       additions |-> SumSeq(SelectMap(bucket_commits, AnyEntity,
                                                      CommitAdditions)),
                       deletions |-> SumSeq(SelectMap(bucket_commits, AnyEntity,
                                                      CommitDeletions)),
                       pull_requests |-> Len(SelectSeq(prs, CreatedIn)),
                       issues_closed |-> Len(SelectSeq(issue_list, CreatedIn))])

\* the velocity point of one bucket
BucketPoint(commit_list, prs, issue_list, bucket) ==
    LET bucket_start      == bucket[1]
        bucket_last       == bucket[2]
        InBucket(c)       == bucket_start <= c.timestamp /\ c.timestamp <= bucket_last
        CreatedIn(pr)     == bucket_start <= pr.created_at /\ pr.created_at <= bucket_last
        ClosedIn(issue)   == /\ issue.closed_at # None
                             /\ bucket_start <= Get(issue.closed_at)
                             /\ Get(issue.closed_at) <= bucket_last
        bucket_commits    == SelectSeq(commit_list, InBucket)
    IN  VelocityPoint([timestamp |-> bucket_start,
                       commits |-> Len(bucket_commits),
                       additions |-> SumSeq(SelectMap(bucket_commits, AnyEntity,
                                                      CommitAdditions)),
                       deletions |-> SumSeq(SelectMap(bucket_commits, AnyEntity,
                                                      CommitDeletions)),
                       pull_requests |-> Len(SelectSeq(prs, CreatedIn)),
                       issues_closed |-> Len(SelectSeq(issue_list, ClosedIn))])

all_dates_WithClosedAt(commit_list, prs, issue_list) ==
    SelectMap(commit_list, AnyEntity, CommitTimestamp)
        \o SelectMap(prs, AnyEntity, CreatedAt)
        \o SelectMap(issue_list, AnyEntity, CreatedAt)
        \o [i \in DOMAIN SelectSeq(issue_list, LAMBDA issue : issue.closed_at # None) |->
               Get(SelectSeq(issue_list, LAMBDA issue : issue.closed_at # None)[i].closed_at)]

\* the timestamps of the commits and the creation dates of the pull requests
\* and of the issues
all_dates(commit_list, prs, issue_list) ==
    SelectMap(commit_list, AnyEntity, CommitTimestamp)
        \o SelectMap(prs, AnyEntity, CreatedAt)
        \o SelectMap(issue_list, AnyEntity, CreatedAt)

\* the buckets of the span from the first day to the last day of the lists
time_buckets(commit_list, prs, issue_list, p) ==
    LET dates      == all_dates(commit_list, prs, issue_list)
        start_date == StartOfDay(MinOf(dates))
        end_date   == EndOfDay(MaxOf(dates))
    IN  _generate_time_buckets(start_date, end_date, p)

generate_time_series_data(commit_list, prs, issue_list, p) ==
    IF commit_list = <<>> /\ prs = <<>> /\ issue_list = <<>>
    THEN Return(<<>>)
    ELSE LET buckets == time_buckets(commit_list, prs, issue_list, p)
             points == [i \in DOMAIN buckets |->
                           BucketPoint(commit_list, prs, issue_list, buckets[i])]
         IN  IF \E i \in DOMAIN points : points[i].status = "raised"
             THEN points[CHOOSE i \in DOMAIN points :
                             /\ points[i].status = "raised"
                             /\ \A j \in 1..(i - 1) : points[j].status # "raised"]
             ELSE Return([i \in DOMAIN points |-> points[i].value])

---------------------------------------------------------------------------
(* models/metrics.py: ProductivityMetrics;                                 *)
(* utils/metrics_calculator.py: calculate_productivity_metrics             *)

ProductivityMetrics_RejectEarlierOnly(m) ==
    IF m.period_end < m.period_start
    THEN Raise("ValueError: Period end must be after period start")
    ELSE Return(m)

\* ProductivityMetrics.__post_init__: the record, or the ValueError it raises
ProductivityMetrics(m) ==
    IF m.period_end <= m.period_start
    THEN Raise("ValueError: Period end must be after period start")
    ELSE Return(m)

_calculate_time_distribution_ZeroEntries(commit_list, prs) ==
    LET total_time == Frac(Len(commit_list) + Len(prs) * 4, 2)
    IN  IF total_time.num = 0
        THEN [coding |-> Frac(0, 1), code_review |-> Frac(0, 1), other |-> Frac(0, 1)]
        ELSE [coding |-> Frac(Len(commit_list) * 100, total_time.num),
              code_review |-> Frac(Len(prs) * 4 * 100, total_time.num),
              other |-> Frac(0, 1)]

\* 0.5 h per commit and 2 h per pull request, as percentages of their sum
_calculate_time_distribution(commit_list, prs) ==
    LET total_commits == Len(commit_list)
        total_prs     == Len(prs)
        commit_time   == Frac(total_commits, 2)
        pr_time       == Frac(total_prs * 2, 1)
        total_time    == Frac(commit_time.num + pr_time.num * 2, 2)
    IN  IF total_time.num = 0 THEN EmptyDict
        ELSE [coding |-> Frac(commit_time.num * total_time.den * 100,
                              commit_time.den * total_time.num),
              code_review |-> Frac(pr_time.num * total_time.den * 100,
                                   pr_time.den * total_time.num),
              other |-> Frac(0, 1)]

\* the first of the calls, in the order made, that raised; None if none did
FirstRaised(outcomes) ==
    IF \E i \in DOMAIN outcomes : outcomes[i].status = "raised"
    THEN Some(outcomes[CHOOSE i \in DOMAIN outcomes :
                          /\ outcomes[i].status = "raised"
                          /\ \A j \in 1..(i - 1) : outcomes[j].status # "raised"])
    ELSE None

calculate_productivity_metrics(commit_list, prs, issue_list, p_start, p_end) ==
    LET commit_metrics    == calculate_commit_metrics(commit_list)
        pr_metrics        == calculate_pr_metrics(prs)
        velocity_trends   == generate_time_series_data(commit_list, prs, issue_list,
                                                       "daily")
        time_distribution == _calculate_time_distribution(commit_list, prs)
        review_metrics    == calculate_review_metrics(prs, None)
        issue_metrics     == calculate_issue_metrics(issue_list, None)
        failed            == FirstRaised(<<commit_metrics, pr_metrics, velocity_trends,
                                           review_metrics, issue_metrics>>)
    IN  IF failed # None THEN Get(failed)
        ELSE ProductivityMetrics([period_start |-> p_start,
                                  period_end |-> p_end,
                                  commit_metrics |-> commit_metrics.value,
                                  pr_metrics |-> pr_metrics.value,
                                  review_metrics |-> review_metrics.value,
                                  issue_metrics |-> issue_metrics.value,
                                  velocity_trends |-> velocity_trends.value,
                                  time_distribution |-> time_distribution])

---------------------------------------------------------------------------
(* utils/github_client.py: GitHubClient._make_request                      *)
(*                                                                         *)
(* The clock (datetime.now()) and the reset times count tenths of a        *)
(* second.  A response is its status code, whether its text holds          *)
(* 'rate limit', and its X-RateLimit-Remaining and X-RateLimit-Reset       *)
(* headers, each absent or holding a number.                               *)

\* no call of _make_request under way
NoRequest == [pc |-> "idle"]

\* GitHubRateLimitError("Rate limit exceeded", reset_time)
GitHubRateLimitError(reset_time) ==
    [type |-> "GitHubRateLimitError", message |-> "Rate limit exceeded",
     reset_time |-> reset_time]

\* time.sleep(wait_time): logged, and the clock moves on
sleep(req, wait_time) ==
    [req EXCEPT !.log = Append(@, [kind |-> "sleep", wait_time |-> wait_time]),
                !.now = @ + wait_time]

\* GitHubClient._check_rate_limit
_check_rate_limit(req) ==
    IF req.rate_limit_remaining < 100
    THEN IF req.now < req.rate_limit_reset
         THEN LET wait_time == req.rate_limit_reset - req.now
              IN  IF wait_time > 0 THEN sleep(req, wait_time) ELSE req
         ELSE req
    ELSE req

\* GitHubClient._update_rate_limit_info
_update_rate_limit_info(req, response) ==
    [req EXCEPT !.rate_limit_remaining =
                    IF response.headers.remaining # None
                    THEN Get(response.headers.remaining) ELSE @,
                !.rate_limit_reset =
                    IF response.headers.reset # None
                    THEN Get(response.headers.reset) ELSE @]

_get_rate_limit_reset_time_Dropped(response) == None

\* GitHubClient._get_rate_limit_reset_time
_get_rate_limit_reset_time(response) ==
    IF response.headers.reset # None THEN Some(Get(response.headers.reset)) ELSE None

RECURSIVE Pow2(_)
\* 2 ** attempt
Pow2(attempt) == IF attempt = 0 THEN 1 ELSE 2 * Pow2(attempt - 1)

\* GitHubClient._calculate_backoff_time, at clock reading now: up to five
\* seconds after the reset, or 2 ** attempt seconds and a tenth more
_calculate_backoff_time(attempt, reset_time, now) ==
    IF reset_time # None
    THEN LET wait_time == Get(reset_time) - now + 50
         IN  IF wait_time >= 0 THEN wait_time ELSE 0
    ELSE LET base_wait == Pow2(attempt) * 10
             jitter    == Pow2(attempt)
         IN  base_wait + jitter

retry_allowed_OnLastToo(attempt, max_retries) == attempt <= max_retries

\* attempt < max_retries
retry_allowed(attempt, max_retries) == attempt < max_retries

\* continue: on to the next attempt of the loop
Continue(req) == [req |-> [req EXCEPT !.attempt = @ + 1], outcome |-> NoResult]

\* return or raise: the call is over
Finish(req, outcome) == [req |-> [req EXCEPT !.pc = "done"], outcome |-> outcome]

HandleResponse_RaiseOnServerError(req, response) ==
    LET reset_time == _get_rate_limit_reset_time(response)
    IN  IF response.status_code = 403 /\ response.rate_limit_text
        THEN IF retry_allowed(req.attempt, req.max_retries)
             THEN Continue(sleep(req, _calculate_backoff_time(req.attempt, reset_time,
                                                              req.now)))
             ELSE Finish(req, Raise(GitHubRateLimitError(reset_time)))
        ELSE IF response.status_code >= 500
        THEN IF retry_allowed(req.attempt, req.max_retries)
             THEN Continue(sleep(req, _calculate_backoff_time(req.attempt, None,
                                                              req.now)))
             ELSE Finish(req, Raise([type |-> "GitHubAPIError",
                                    message |-> "Maximum retries exceeded"]))
        ELSE Finish(req, Return(response))

\* what the loop body does with the response of session.request
HandleResponse(req, response) ==
    LET reset_time == _get_rate_limit_reset_time(response)
    IN  IF response.status_code = 403 /\ response.rate_limit_text
        THEN IF retry_allowed(req.attempt, req.max_retries)
             THEN Continue(sleep(req, _calculate_backoff_time(req.attempt, reset_time,
                                                              req.now)))
             ELSE Finish(req, Raise(GitHubRateLimitError(reset_time)))
        ELSE IF response.status_code >= 500
                   /\ retry_allowed(req.attempt, req.max_retries)
        THEN Continue(sleep(req, _calculate_backoff_time(req.attempt, None, req.now)))
        ELSE Finish(req, Return(response))

\* except requests.exceptions.RequestException
HandleRequestException(req) ==
    IF retry_allowed(req.attempt, req.max_retries)
    THEN Continue(sleep(req, _calculate_backoff_time(req.attempt, None, req.now)))
    ELSE Finish(req, Raise([type |-> "GitHubAPIError",
                       message |-> "Request failed after N retries",
                       N |-> req.max_retries]))

---------------------------------------------------------------------------
(* Argument values *)

\* sequences over S of length at most n
SeqUpTo(S, n) == UNION {[1..k -> S] : k \in 0..n}

\* base_time of the test suites
BaseTime == DateTime(2023, 1, 1, 12, 0)

Hours(h) == h * TicksPerHour

PRSizes == {<<30, 15, 2>>, <<25, 12, 3>>}

PullRequestValues ==
    {pr \in
        {[number |-> n, title |-> "PR", author |-> "user1",
          created_at |-> c, state |-> st, merged_at |-> m, closed_at |-> m,
          additions |-> sz[1], deletions |-> sz[2], commits |-> sz[3],
          reviews |-> <<>>] :
            n \in {0, 1}, c \in {BaseTime, BaseTime + Hours(1)},
            st \in {"open", "closed", "merged"},
            m \in {None, Some(BaseTime + Hours(24) + 1), Some(BaseTime + 1)},
            sz \in PRSizes} :
        PullRequest_post_init(pr)}

CommitSizes == {<<10, 5, 2>>, <<20, 10, 3>>}

\* commit instants on both sides of the day, month, year and ISO-week borders
CommitTimes ==
    {BaseTime, BaseTime + Hours(2), BaseTime + Hours(24),
     DateTime(2024, 1, 1, 9, 0), DateTime(2024, 12, 30, 9, 1)}

\* commits at five hours of the day
HourCommitValues ==
    {[sha |-> "commit1", author |-> "user1", timestamp |-> BaseTime + Hours(h),
      message |-> <<"f", "i", "x">>,
      additions |-> 10, deletions |-> 5, files_changed |-> 2] :
        h \in {-3, 0, 2, 4, 11}}

CommitValues ==
    {commit \in
        {[sha |-> sha, author |-> "user1", timestamp |-> t,
          message |-> <<"f", "i", "x">>,
          additions |-> sz[1], deletions |-> sz[2], files_changed |-> sz[3]] :
            sha \in {"", "commit1"}, t \in CommitTimes, sz \in CommitSizes} :
        Commit_post_init(commit)}

\* midnight of the first day of the time series
SeriesStart == DateTime(2023, 1, 1, 0, 0)

\* instants inside a day and on the daily, weekly, 30-day and 90-day borders
SeriesTimes ==
    {SeriesStart + Hours(12), SeriesStart + Days(1) - 1, SeriesStart + Days(1),
     SeriesStart + Days(7), SeriesStart + Days(30), SeriesStart + Days(90)}

\* commits of the first day are smaller than the later ones
SeriesCommitValues ==
    {[sha |-> "commit1", author |-> "user1", timestamp |-> t,
      message |-> <<"f", "i", "x">>,
      additions |-> IF t < SeriesStart + Days(1) THEN 10 ELSE 20,
      deletions |-> IF t < SeriesStart + Days(1) THEN 5 ELSE 10,
      files_changed |-> 2] : t \in SeriesTimes}

SeriesPRValues ==
    {[number |-> 1, title |-> "PR", author |-> "user1",
      created_at |-> c, state |-> "open", merged_at |-> None, closed_at |-> None,
      additions |-> 30, deletions |-> 15, commits |-> 2, reviews |-> <<>>] :
        c \in {SeriesStart + Hours(12), SeriesStart + Days(91)}}

SeriesIssueValues ==
    {[number |-> 1, title |-> "Issue", author |-> "user1",
      created_at |-> SeriesStart + Hours(12),
      state |-> IF c = None THEN "open" ELSE "closed",
      closed_at |-> c, assignee |-> None, labels |-> <<>>, body |-> None] :
        c \in {None, Some(SeriesStart + Days(2)), Some(SeriesStart + Days(200))}}

ReviewValues ==
    {review \in
        {[reviewer |-> r, state |-> "APPROVED",
          submitted_at |-> SeriesStart + Hours(13), body |-> None] :
            r \in {"", "reviewer1"}} :
        Review_post_init(review)}

\* a merged, an open and a MERGED-without-merged_at pull request, each with
\* no review or one
AggregatePRValues ==
    {pr \in
        {[number |-> 1, title |-> "PR", author |-> "user1",
          created_at |-> SeriesStart + Hours(12), state |-> st[1],
          merged_at |-> st[2], closed_at |-> st[2],
          additions |-> 30, deletions |-> 15, commits |-> 2, reviews |-> rs] :
            st \in {<<"merged", Some(SeriesStart + Hours(36))>>,
                    <<"open", None>>, <<"merged", None>>},
            rs \in SeqUpTo(ReviewValues, 1)} :
        PullRequest_post_init(pr)}

AggregateCommitValues ==
    {commit \in SeriesCommitValues : commit.timestamp < SeriesStart + Days(7)}

AggregateIssueValues ==
    {issue \in SeriesIssueValues :
        issue.closed_at \in {None, Some(SeriesStart + Days(2))}}

Periods == {SeriesStart, SeriesStart + Days(1), SeriesStart + Days(7)}

IssueValues ==
    {issue \in
        {[number |-> n, title |-> "Issue", author |-> a, created_at |-> BaseTime,
          state |-> st, closed_at |-> c, assignee |-> as, labels |-> <<>>,
          body |-> None] :
            n \in {0, 1}, a \in {"user1", "user2"}, st \in {"open", "closed"},
            c \in {None, Some(BaseTime + Hours(48)), Some(BaseTime + Hours(5) + 1)},
            as \in {None, Some(""), Some("user1")}} :
        Issue_post_init(issue)}

TargetAuthors == {None, Some(""), Some("user1")}

\* the clock reading when _make_request is called
CallTime == 1000

\* absent headers; few requests left until a reset a minute after the call;
\* many requests left and a reset ten seconds before the call
HeaderValues ==
    {[remaining |-> None, reset |-> None],
     [remaining |-> Some(50), reset |-> Some(CallTime + 600)],
     [remaining |-> Some(4999), reset |-> Some(CallTime - 100)]}

\* a success, a rate-limit refusal, another refusal, a server error
ResponseValues ==
    {[status_code |-> st[1], rate_limit_text |-> st[2], headers |-> h] :
        st \in {<<200, FALSE>>, <<403, TRUE>>, <<403, FALSE>>, <<500, FALSE>>},
        h \in HeaderValues}

\* the rate-limit fields of a new client, and of a client whose last response
\* left few requests until a reset still to come
ClientValues ==
    {[rate_limit_remaining |-> 5000, rate_limit_reset |-> CallTime],
     [rate_limit_remaining |-> 50, rate_limit_reset |-> CallTime + 600]}

\* a commit before noon of the first day and one at midnight of the second
CallCommitValues ==
    {commit \in AggregateCommitValues :
        commit.timestamp # SeriesStart + Days(1) - 1}

\* an open pull request without and with a review, a merged one with a review
CallPRValues ==
    {pr \in AggregatePRValues :
        \/ pr.state = "open"
        \/ pr.merged_at # None /\ pr.reviews # <<>>}

\* a review by the target author or by somebody else, approving three hours
\* after base_time or asking for changes an hour and a tick after it
PooledReviewValues ==
    {review \in
        {[reviewer |-> r, state |-> st[1], submitted_at |-> st[2], body |-> None] :
            r \in {"user1", "reviewer1"},
            st \in {<<"APPROVED", BaseTime + Hours(3)>>,
                    <<"CHANGES_REQUESTED", BaseTime + Hours(1) + 1>>}} :
        /\ Review_post_init(review)
        /\ review.reviewer = "reviewer1" => review.state = "APPROVED"}

\* no review, one review, two different reviews
PooledReviewLists ==
    {<<>>} \cup {<<r>> : r \in PooledReviewValues}
           \cup {rs \in {<<r1, r2>> : r1 \in PooledReviewValues,
                                       r2 \in PooledReviewValues} : rs[1] # rs[2]}

\* pull requests of the target author and of somebody else
ReviewedPRValues ==
    {pr \in
        {[number |-> 1, title |-> "PR", author |-> a,
          created_at |-> BaseTime, state |-> "open",
          merged_at |-> None, closed_at |-> None,
          additions |-> 30, deletions |-> 15, commits |-> 2, reviews |-> rs] :
            a \in {"user1", "user2"}, rs \in PooledReviewLists} :
        PullRequest_post_init(pr)}

---------------------------------------------------------------------------
(* Calls *)

Call_calculate_pr_metrics ==
    /\ op' = "calculate_pr_metrics"
    /\ result' = calculate_pr_metrics(pull_requests)
    /\ UNCHANGED <<commits, pull_requests, issues, period, target_author,
                   period_start, period_end>>
    /\ UNCHANGED request

Call_calculate_commit_metrics ==
    /\ op' = "calculate_commit_metrics"
    /\ result' = calculate_commit_metrics(commits)
    /\ UNCHANGED <<commits, pull_requests, issues, period, target_author,
                   period_start, period_end>>
    /\ UNCHANGED request

Call_generate_time_series_data ==
    /\ op' = "generate_time_series_data"
    /\ result' = generate_time_series_data(commits, pull_requests, issues, period)
    /\ UNCHANGED <<commits, pull_requests, issues, period, target_author,
                   period_start, period_end>>
    /\ UNCHANGED request

Call_calculate_productivity_metrics ==
    /\ op' = "calculate_productivity_metrics"
    /\ result' = calculate_productivity_metrics(commits, pull_requests, issues,
                                                period_start, period_end)
    /\ pull_requests' =
           IF FirstRaised(<<calculate_commit_metrics(commits),
                            calculate_pr_metrics(pull_requests),
                            generate_time_series_data(commits, pull_requests, issues,
                                                      "daily")>>) # None
           THEN pull_requests
           ELSE PullRequestsAfterPooling(pull_requests, None)
    /\ UNCHANGED <<commits, issues, period, target_author, period_start, period_end>>
    /\ UNCHANGED request

Call_calculate_issue_metrics ==
    /\ op' = "calculate_issue_metrics"
    /\ result' = calculate_issue_metrics(issues, target_author)
    /\ UNCHANGED <<commits, pull_requests, issues, period, target_author,
                   period_start, period_end>>
    /\ UNCHANGED request

Call__calculate_time_distribution ==
    /\ op' = "_calculate_time_distribution"
    /\ result' = Return(_calculate_time_distribution(commits, pull_requests))
    /\ UNCHANGED <<commits, pull_requests, issues, period, target_author,
                   period_start, period_end>>
    /\ UNCHANGED request

\* the call generate_time_series_data makes for its non-empty lists
Call__generate_time_buckets ==
    /\ ~(commits = <<>> /\ pull_requests = <<>> /\ issues = <<>>)
    /\ op' = "_generate_time_buckets"
    /\ result' = Return(time_buckets(commits, pull_requests, issues, period))
    /\ UNCHANGED <<commits, pull_requests, issues, period, target_author,
                   period_start, period_end>>
    /\ UNCHANGED request

\* the property PullRequest.time_to_merge of the pull request
Call_time_to_merge ==
    /\ pull_requests # <<>>
    /\ op' = "time_to_merge"
    /\ result' = Return(time_to_merge(pull_requests[1]))
    /\ UNCHANGED <<commits, pull_requests, issues, period, target_author,
                   period_start, period_end>>
    /\ UNCHANGED request

\* the property Issue.time_to_close of the issue
Call_time_to_close ==
    /\ issues # <<>>
    /\ op' = "time_to_close"
    /\ result' = Return(time_to_close(issues[1]))
    /\ UNCHANGED <<commits, pull_requests, issues, period, target_author,
                   period_start, period_end>>
    /\ UNCHANGED request

\* an iteration of the loop of _make_request in which session.request
\* returns a response
Attempt_Response ==
    /\ request.pc = "loop"
    /\ request.attempt <= request.max_retries
    /\ \E response \in ResponseValues :
           LET checked == _check_rate_limit(request)
               sent    == [checked EXCEPT !.log =
                              Append(@, [kind |-> "request", came |-> Some(response)])]
               updated == _update_rate_limit_info(sent, response)
               handled == HandleResponse(updated, response)
           IN  /\ request' = handled.req
               /\ result' = handled.outcome
    /\ op' = "_make_request"
    /\ UNCHANGED <<commits, pull_requests, issues, period, target_author,
                   period_start, period_end>>

\* an iteration of the loop in which session.request raises a
\* RequestException
Attempt_RequestException ==
    /\ request.pc = "loop"
    /\ request.attempt <= request.max_retries
    /\ LET checked == _check_rate_limit(request)
           sent    == [checked EXCEPT !.log =
                          Append(@, [kind |-> "request", came |-> None])]
           handled == HandleRequestException(sent)
       IN  /\ request' = handled.req
           /\ result' = handled.outcome
    /\ op' = "_make_request"
    /\ UNCHANGED <<commits, pull_requests, issues, period, target_author,
                   period_start, period_end>>

\* range(max_retries + 1) is used up: the raise after the loop
Loop_Exhausted ==
    /\ request.pc = "loop"
    /\ request.attempt > request.max_retries
    /\ request' = [request EXCEPT !.pc = "done"]
    /\ result' = Raise([type |-> "GitHubAPIError",
                                    message |-> "Maximum retries exceeded"])
    /\ op' = "_make_request"
    /\ UNCHANGED <<commits, pull_requests, issues, period, target_author,
                   period_start, period_end>>

Call_calculate_review_metrics ==
    /\ op' = "calculate_review_metrics"
    /\ result' = calculate_review_metrics(pull_requests, target_author)
    /\ pull_requests' = PullRequestsAfterPooling(pull_requests, target_author)
    /\ UNCHANGED <<commits, issues, period, target_author, period_start, period_end>>
    /\ UNCHANGED request

---------------------------------------------------------------------------
(* Pull-request aggregation over every accepted pull-request list *)

InitPR ==
    /\ pull_requests \in SeqUpTo(PullRequestValues, MaxPRs)
    /\ commits = <<>>
    /\ issues = <<>>
    /\ period = "daily"
    /\ target_author = None
    /\ period_start = BaseTime
    /\ period_end = BaseTime
    /\ op = "none"
    /\ result = NoResult
    /\ request = NoRequest

NextPR == Call_calculate_pr_metrics

SpecPR == InitPR /\ [][NextPR]_vars

---------------------------------------------------------------------------
(* Issue aggregation over every accepted issue list and target author *)

InitIssue ==
    /\ issues \in SeqUpTo(IssueValues, MaxIssues)
    /\ target_author \in TargetAuthors
    /\ commits = <<>>
    /\ pull_requests = <<>>
    /\ period = "daily"
    /\ period_start = BaseTime
    /\ period_end = BaseTime
    /\ op = "none"
    /\ result = NoResult
    /\ request = NoRequest

NextIssue == Call_calculate_issue_metrics

SpecIssue == InitIssue /\ [][NextIssue]_vars

---------------------------------------------------------------------------
(* Commit aggregation over every accepted commit list *)

InitCommit ==
    /\ commits \in SeqUpTo(CommitValues, MaxCommits)
    /\ pull_requests = <<>>
    /\ issues = <<>>
    /\ period = "daily"
    /\ target_author = None
    /\ period_start = BaseTime
    /\ period_end = BaseTime
    /\ op = "none"
    /\ result = NoResult
    /\ request = NoRequest

NextCommit == Call_calculate_commit_metrics

SpecCommit == InitCommit /\ [][NextCommit]_vars

---------------------------------------------------------------------------
(* Properties of calculate_commit_metrics (SpecCommit) *)

CalledCommit == op = "calculate_commit_metrics"

\* the sum of the counts of a frequency table
SumValues(freq) ==
    LET total[K \in SUBSET DOMAIN freq] ==
            IF K = {} THEN 0
            ELSE LET k == CHOOSE x \in K : TRUE IN freq[k] + total[K \ {k}]
    IN  total[DOMAIN freq]

\* C3: for every non-empty commit list, total_commits is the length of the
\* list and the counts of each of the daily, weekly, monthly and hourly
\* groupings of commit_frequency sum to total_commits.
C3_FrequenciesSumToTotal ==
    (CalledCommit /\ commits # <<>>) =>
        /\ Returned
        /\ result.value.total_commits = Len(commits)
        /\ \A grouping \in {"daily", "weekly", "monthly", "hourly"} :
               SumValues(result.value.commit_frequency[grouping])
                   = result.value.total_commits

\* three commits, two of them on the same day at different hours
C3_Witness ==
    /\ CalledCommit /\ Returned
    /\ Len(commits) = 3
    /\ Cardinality(DOMAIN result.value.commit_frequency.daily) = 2
    /\ Cardinality(DOMAIN result.value.commit_frequency.hourly) = 3
    /\ \E k \in DOMAIN result.value.commit_frequency.daily :
           result.value.commit_frequency.daily[k] = 2

---------------------------------------------------------------------------
(* Time series over commit, pull-request and issue lists, every granularity *)

InitSeries ==
    /\ commits \in SeqUpTo(SeriesCommitValues, MaxSeriesCommits)
    /\ pull_requests \in {<<>>} \cup {<<pr>> : pr \in SeriesPRValues}
    /\ issues \in {<<>>} \cup {<<issue>> : issue \in SeriesIssueValues}
    /\ period \in MetricPeriod
    /\ target_author = None
    /\ period_start = BaseTime
    /\ period_end = BaseTime
    /\ op = "none"
    /\ result = NoResult
    /\ request = NoRequest

NextSeries == Call_generate_time_series_data

SpecSeries == InitSeries /\ [][NextSeries]_vars

---------------------------------------------------------------------------
(* Properties of generate_time_series_data (SpecSeries) *)

CalledSeries == op = "generate_time_series_data"

PointCommits(point) == point.commits

\* the sum of point.commits over the returned points
SumOfCommits(points) == SumSeq([i \in DOMAIN points |-> PointCommits(points[i])])

\* C2: for every non-empty input and every granularity the commits of the
\* returned points sum to the number of commits: each commit is counted in
\* exactly one point.
C2_CommitsCountedOnce ==
    (CalledSeries /\ ~(commits = <<>> /\ pull_requests = <<>> /\ issues = <<>>)) =>
        /\ Returned
        /\ SumOfCommits(result.value) = Len(commits)

\* two points, with a commit on the first instant of the second one
C2_Witness ==
    /\ CalledSeries /\ Returned
    /\ Len(result.value) >= 2
    /\ Len(commits) = 2
    /\ \E i \in DOMAIN commits : commits[i].timestamp = result.value[2].timestamp
    /\ result.value[1].commits = 1
    /\ result.value[2].commits = 1

---------------------------------------------------------------------------
(* The productivity aggregate over entity lists and every pair of period   *)
(* bounds                                                                  *)

InitAggregate ==
    /\ commits \in SeqUpTo(AggregateCommitValues, MaxEach)
    /\ pull_requests \in SeqUpTo(AggregatePRValues, MaxEach)
    /\ issues \in SeqUpTo(AggregateIssueValues, MaxEach)
    /\ period = "daily"
    /\ target_author = None
    /\ period_start \in Periods
    /\ period_end \in Periods
    /\ op = "none"
    /\ result = NoResult
    /\ request = NoRequest

NextAggregate ==
    \/ Call_calculate_productivity_metrics
    \/ Call_calculate_pr_metrics

SpecAggregate == InitAggregate /\ [][NextAggregate]_vars

---------------------------------------------------------------------------
(* Properties of calculate_productivity_metrics (SpecAggregate) *)

CalledAggregate == op = "calculate_productivity_metrics"

\* C4: a call of calculate_productivity_metrics with period_end <=
\* period_start raises for every input, the empty lists included, and returns
\* no ProductivityMetrics: its construction raises.
C4_PeriodEndNotAfterStartRaises ==
    (CalledAggregate /\ period_end <= period_start) =>
        /\ Raised
        /\ ~Returned

\* equal period bounds with aggregable lists: the constructor's own error
C4_Witness ==
    /\ CalledAggregate
    /\ period_end = period_start
    /\ commits # <<>>
    /\ Raised
    /\ result.error = "ValueError: Period end must be after period start"

\* the same for empty lists and a period end before the start
C4_WitnessEmpty ==
    /\ CalledAggregate
    /\ period_end < period_start
    /\ commits = <<>> /\ pull_requests = <<>> /\ issues = <<>>
    /\ Raised

---------------------------------------------------------------------------
(* Properties of calculate_pr_metrics (SpecPR) *)

CalledPR == op = "calculate_pr_metrics"

\* pull requests that are merged: state MERGED with a merged_at
MergedIdx == {i \in DOMAIN pull_requests :
                 pull_requests[i].state = "merged"
                 /\ pull_requests[i].merged_at # None}

\* C1: for every accepted pull-request list the call returns a PRMetrics whose
\* merged, closed and open counts are those of the list (merged = MERGED with
\* a merged_at, closed = CLOSED and not merged, open = OPEN) and sum to
\* total_prs, the length of the list.
C1_CountsPartitionEveryList ==
    CalledPR =>
        /\ Returned
        /\ result.value.total_prs = Len(pull_requests)
        /\ result.value.merged_prs = Cardinality(MergedIdx)
        /\ result.value.closed_prs =
               Cardinality({i \in DOMAIN pull_requests \ MergedIdx :
                               pull_requests[i].state = "closed"})
        /\ result.value.open_prs =
               Cardinality({i \in DOMAIN pull_requests :
                               pull_requests[i].state = "open"})
        /\ result.value.merged_prs + result.value.closed_prs
               + result.value.open_prs = result.value.total_prs

\* C5: average_time_to_merge is the mean of the hours from created_at to
\* merged_at over the merged pull requests only, and None when there is none;
\* a pull request that is not merged never contributes.
C5_MeanOverMergedOnly ==
    (CalledPR /\ Returned) =>
        LET hours == [i \in MergedIdx |->
                         TruncDiv(Get(pull_requests[i].merged_at)
                                  - pull_requests[i].created_at, TicksPerHour)]
            total[S \in SUBSET MergedIdx] ==
                IF S = {} THEN 0
                ELSE LET i == CHOOSE j \in S : TRUE IN hours[i] + total[S \ {i}]
            avg == result.value.average_time_to_merge
        IN  IF MergedIdx = {}
            THEN avg = None
            ELSE avg # None
                 /\ FracEq(Get(avg), Frac(total[MergedIdx], Cardinality(MergedIdx)))

\* C6: the merge_rate returned is merged/total * 100 (0 for the empty list):
\* 100 when every pull request is merged, 0 when none is, within [0, 100].
C6_MergeRate ==
    (CalledPR /\ Returned) =>
        LET rate == result.value.merge_rate
            n    == Len(pull_requests)
            k    == Cardinality(MergedIdx)
        IN  /\ rate.den > 0
            /\ n = 0 => rate.num = 0
            /\ n > 0 => rate.num * n = k * 100 * rate.den
            /\ (n > 0 /\ k = n) => rate.num = 100 * rate.den
            /\ k = 0 => rate.num = 0
            /\ 0 <= rate.num /\ rate.num <= 100 * rate.den

\* a returned rate strictly between 0 and 100: one of two pull requests merged
C6_Witness ==
    /\ CalledPR /\ Returned
    /\ Len(pull_requests) = 2
    /\ Cardinality(MergedIdx) = 1
    /\ FracEq(result.value.merge_rate, Frac(50, 1))

---------------------------------------------------------------------------
(* Properties of calculate_issue_metrics (SpecIssue) *)

CalledIssue == op = "calculate_issue_metrics"

\* issues that are closed: state CLOSED with a closed_at
ClosedIdxOf(list) == {i \in DOMAIN list :
                         list[i].state = "closed" /\ list[i].closed_at # None}

ClosedIdx == ClosedIdxOf(issues)

\* C7: closed_issues counts exactly the issues that are CLOSED with a
\* closed_at, every other issue is counted open, and the two sum to
\* total_issues, the length of the list.
C7_IssueCountsPartition ==
    CalledIssue =>
        /\ Returned
        /\ result.value.total_issues = Len(issues)
        /\ result.value.closed_issues = Cardinality(ClosedIdx)
        /\ result.value.open_issues = Cardinality(DOMAIN issues \ ClosedIdx)
        /\ result.value.closed_issues + result.value.open_issues
               = result.value.total_issues

\* a list with a closed issue and an issue in state CLOSED without a closed_at
C7_Witness ==
    /\ CalledIssue /\ Returned
    /\ ClosedIdx # {}
    /\ \E i \in DOMAIN issues :
           issues[i].state = "closed" /\ issues[i].closed_at = None
    /\ result.value.open_issues = 1

CloseTimes == {BaseTime + Hours(48), BaseTime + Hours(5) + 1}

\* the list after the issues at the indexes S have become closed at time t
AfterClosing(list, S, t) ==
    [i \in DOMAIN list |->
        IF i \in S
        THEN [list[i] EXCEPT !.state = "closed", !.closed_at = Some(t)]
        ELSE list[i]]

\* C8: closing some of the open issues of a list (same length, nothing else
\* changed) never lowers resolution_rate; the rate of a non-empty list is
\* 100 when all its issues are closed and 0 when none is.
C8_ResolutionRateMonotone ==
    (CalledIssue /\ Returned) =>
        LET rate == result.value.resolution_rate
        IN  /\ \A S \in SUBSET (DOMAIN issues \ ClosedIdx) : \A t \in CloseTimes :
                   LET later == calculate_issue_metrics(
                                    AfterClosing(issues, S, t), target_author)
                   IN  /\ later.status = "returned"
                       /\ FracLeq(rate, later.value.resolution_rate)
            /\ (issues # <<>> /\ ClosedIdx = DOMAIN issues) => FracEq(rate, Frac(100, 1))
            /\ ClosedIdx = {} => FracEq(rate, Frac(0, 1))

\* a list with one closed and one open issue, whose rate rises from 50 to 100
\* once the open issue is closed
C8_Witness ==
    /\ CalledIssue /\ Returned
    /\ Len(issues) = 2
    /\ Cardinality(ClosedIdx) = 1
    /\ FracEq(result.value.resolution_rate, Frac(50, 1))
    /\ \E t \in CloseTimes :
           FracEq(calculate_issue_metrics(
                      AfterClosing(issues, DOMAIN issues \ ClosedIdx, t),
                      target_author).value.resolution_rate,
                  Frac(100, 1))

\* a target author is absent when it is None or the empty string
Absent(a) == a = None \/ a = Some("")

\* C9: total_issues, closed_issues, open_issues, resolution_rate and
\* average_time_to_close are the same for every target author and for none;
\* issues_created counts the issues the target authored (all issues when
\* absent) and issues_assigned those assigned to it (those with any assignee
\* when absent).
C9_TargetAuthorOnlyNarrowsCreatedAssigned ==
    (CalledIssue /\ Returned) =>
        /\ \A a \in TargetAuthors :
               LET other == calculate_issue_metrics(issues, a)
               IN  /\ other.status = "returned"
                   /\ other.value.total_issues = result.value.total_issues
                   /\ other.value.closed_issues = result.value.closed_issues
                   /\ other.value.open_issues = result.value.open_issues
                   /\ other.value.resolution_rate = result.value.resolution_rate
                   /\ other.value.average_time_to_close
                          = result.value.average_time_to_close
        /\ result.value.total_issues = Len(issues)
        /\ result.value.issues_created =
               IF Absent(target_author) THEN Len(issues)
               ELSE Cardinality({i \in DOMAIN issues :
                                    issues[i].author = Get(target_author)})
        /\ result.value.issues_assigned =
               IF Absent(target_author)
               THEN Cardinality({i \in DOMAIN issues :
                                    issues[i].assignee \notin {None, Some("")}})
               ELSE Cardinality({i \in DOMAIN issues :
                                    issues[i].assignee = target_author})

\* a call for a target author who authored one of two issues, one of them closed
C9_Witness ==
    /\ CalledIssue /\ Returned
    /\ target_author = Some("user1")
    /\ Len(issues) = 2
    /\ result.value.issues_created = 1
    /\ result.value.total_issues = 2
    /\ result.value.closed_issues = 1

\* C10: average_time_to_close is the mean of the hours from created_at to
\* closed_at over the closed issues (CLOSED with a closed_at), None exactly
\* when there is none; an issue counted as open never contributes.
C10_MeanOverClosedOnly ==
    (CalledIssue /\ Returned) =>
        LET hours == [i \in ClosedIdx |->
                         TruncDiv(Get(issues[i].closed_at) - issues[i].created_at,
                                  TicksPerHour)]
            total[S \in SUBSET ClosedIdx] ==
                IF S = {} THEN 0
                ELSE LET i == CHOOSE j \in S : TRUE IN hours[i] + total[S \ {i}]
            avg == result.value.average_time_to_close
        IN  IF ClosedIdx = {}
            THEN avg = None
            ELSE avg # None
                 /\ FracEq(Get(avg), Frac(total[ClosedIdx], Cardinality(ClosedIdx)))

---------------------------------------------------------------------------
(* Review aggregation over every list of reviewed pull requests and target *)
(* author                                                                  *)

InitReview ==
    /\ pull_requests \in SeqUpTo(ReviewedPRValues, MaxPRs)
    /\ target_author \in TargetAuthors
    /\ commits = <<>>
    /\ issues = <<>>
    /\ period = "daily"
    /\ period_start = BaseTime
    /\ period_end = BaseTime
    /\ op = "none"
    /\ result = NoResult
    /\ request = NoRequest

NextReview == Call_calculate_review_metrics

SpecReview == InitReview /\ [][NextReview]_vars

---------------------------------------------------------------------------
(* Properties of calculate_review_metrics (SpecReview) *)

CalledReview == op = "calculate_review_metrics"

\* the positions <<i, j>> of the reviews of the pull requests
ReviewPositions ==
    UNION {{<<i, j>> : j \in DOMAIN pull_requests[i].reviews} :
              i \in DOMAIN pull_requests}

ReviewAt(pos) == pull_requests[pos[1]].reviews[pos[2]]

\* C11: with a target author, total_reviews_given counts the reviews whose
\* reviewer is the target and total_reviews_received counts the reviews on the
\* pull requests the target authored; with no target author both counts are
\* the number of reviews of all the pull requests.
C11_GivenReceivedCounts ==
    CalledReview =>
        /\ Returned
        /\ result.value.total_reviews_given =
               IF Absent(target_author) THEN Cardinality(ReviewPositions)
               ELSE Cardinality({pos \in ReviewPositions :
                                    ReviewAt(pos).reviewer = Get(target_author)})
        /\ result.value.total_reviews_received =
               IF Absent(target_author) THEN Cardinality(ReviewPositions)
               ELSE Cardinality({pos \in ReviewPositions :
                                    pull_requests[pos[1]].author = Get(target_author)})

\* the target reviewed somebody else's pull request, and its own pull request
\* has a review of the target and one of somebody else
C11_Witness ==
    /\ CalledReview /\ Returned
    /\ target_author = Some("user1")
    /\ Len(pull_requests) = 2
    /\ pull_requests[1].author = "user2"
    /\ pull_requests[2].author = "user1"
    /\ Len(pull_requests[1].reviews) = 1
    /\ pull_requests[1].reviews[1].reviewer = "user1"
    /\ Len(pull_requests[2].reviews) = 2
    /\ pull_requests[2].reviews[1].reviewer = "user1"
    /\ pull_requests[2].reviews[2].reviewer = "reviewer1"
    /\ result.value.total_reviews_given = 2
    /\ result.value.total_reviews_received = 2

\* both counts are the size of the pool when no target author is given
C11_WitnessNoTarget ==
    /\ CalledReview /\ Returned
    /\ target_author = None
    /\ Len(pull_requests) = 2
    /\ result.value.total_reviews_given = 3
    /\ result.value.total_reviews_received = 3


\* the ticks from the creation of the pull request to the review at pos
ResponseTicks(pos) == ReviewAt(pos).submitted_at - pull_requests[pos[1]].created_at

\* avg is the mean in hours of the response times of the reviews at the
\* positions of pool, None when pool is empty
IsMeanOverPool(avg, pool) ==
    LET total[P \in SUBSET pool] ==
            IF P = {} THEN 0
            ELSE LET pos == CHOOSE x \in P : TRUE
                 IN  ResponseTicks(pos) + total[P \ {pos}]
    IN  IF pool = {} THEN avg = None
        ELSE /\ avg # None
             /\ FracEq(Get(avg), Frac(total[pool], Cardinality(pool) * TicksPerHour))

\* the reviews the target author gave
GivenPositions ==
    {pos \in ReviewPositions : ReviewAt(pos).reviewer = Get(target_author)}

\* the reviews the pull requests of the target author received
ReceivedPositions ==
    {pos \in ReviewPositions : pull_requests[pos[1]].author = Get(target_author)}

\* C12: average_review_time is the mean in hours of (review.submitted_at -
\* pr.created_at) over all the reviews of all the pull requests when no target
\* author is given, and over the target author's pool of reviews (the reviews
\* the target gave or, read the other way, the reviews the target's pull
\* requests received) when one is given; it is None when the pool is empty.
C12_MeanOverRelevantPool ==
    CalledReview =>
        /\ Returned
        /\ IF Absent(target_author)
           THEN IsMeanOverPool(result.value.average_review_time, ReviewPositions)
           ELSE \/ IsMeanOverPool(result.value.average_review_time, GivenPositions)
                \/ IsMeanOverPool(result.value.average_review_time, ReceivedPositions)

\* the pull requests the target author did not author
ReviewableIdx ==
    {i \in DOMAIN pull_requests : pull_requests[i].author # Get(target_author)}

\* the reviewable pull requests with at least one review of the target author
ParticipatedIdx ==
    {i \in ReviewableIdx :
        \E j \in DOMAIN pull_requests[i].reviews :
            pull_requests[i].reviews[j].reviewer = Get(target_author)}

\* the pull requests without the reviews the target left on its own ones
WithoutOwnReviews ==
    LET NotOwn(r) == r.reviewer # Get(target_author)
    IN  [i \in DOMAIN pull_requests |->
            IF pull_requests[i].author = Get(target_author)
            THEN [pull_requests[i] EXCEPT !.reviews = SelectSeq(@, NotOwn)]
            ELSE pull_requests[i]]

\* C13: with a target author, review_participation_rate is (pull requests not
\* authored by the target on which the target left a review) / (pull requests
\* not authored by the target) * 100; it is 0 when the target authored every
\* pull request, 100 when the target reviewed every reviewable pull request,
\* and the reviews the target left on its own pull requests never change it.
C13_ParticipationRate ==
    (CalledReview /\ ~Absent(target_author) /\ pull_requests # <<>>) =>
        /\ Returned
        /\ LET rate == result.value.review_participation_rate
           IN  /\ IF ReviewableIdx = {} THEN FracEq(rate, Frac(0, 1))
                  ELSE FracEq(rate, Frac(Cardinality(ParticipatedIdx) * 100,
                                         Cardinality(ReviewableIdx)))
               /\ (ReviewableIdx # {} /\ ParticipatedIdx = ReviewableIdx)
                      => FracEq(rate, Frac(100, 1))
               /\ LET other == calculate_review_metrics(WithoutOwnReviews,
                                                        target_author)
                  IN  /\ other.status = "returned"
                      /\ FracEq(other.value.review_participation_rate, rate)

\* the target reviewed one of the two pull requests of somebody else, and
\* also its own pull request
C13_Witness ==
    /\ CalledReview /\ Returned
    /\ target_author = Some("user1")
    /\ Cardinality(ReviewableIdx) = 1
    /\ Cardinality(ParticipatedIdx) = 1
    /\ \E i \in DOMAIN pull_requests :
           /\ pull_requests[i].author = "user1"
           /\ \E j \in DOMAIN pull_requests[i].reviews :
                  pull_requests[i].reviews[j].reviewer = "user1"
    /\ FracEq(result.value.review_participation_rate, Frac(100, 1))

\* the target authored every pull request and reviewed them
C13_WitnessAllOwn ==
    /\ CalledReview /\ Returned
    /\ target_author = Some("user1")
    /\ Len(pull_requests) = 2
    /\ ReviewableIdx = {}
    /\ GivenPositions # {}
    /\ FracEq(result.value.review_participation_rate, Frac(0, 1))


---------------------------------------------------------------------------
(* Calls of every aggregator, in any order, on the same lists *)

InitCalls ==
    /\ commits \in SeqUpTo(CallCommitValues, MaxEach)
    /\ pull_requests \in SeqUpTo(CallPRValues, MaxEach)
    /\ issues \in SeqUpTo(AggregateIssueValues, MaxEach)
    /\ period \in MetricPeriod
    /\ target_author \in {None, Some("user1")}
    /\ period_start = SeriesStart
    /\ period_end = SeriesStart + Days(7)
    /\ op = "none"
    /\ result = NoResult
    /\ request = NoRequest

NextCalls ==
    \/ Call_calculate_commit_metrics
    \/ Call_calculate_pr_metrics
    \/ Call_calculate_review_metrics
    \/ Call_calculate_issue_metrics
    \/ Call_generate_time_series_data
    \/ Call_calculate_productivity_metrics
    \/ Call__calculate_time_distribution

SpecCalls == InitCalls /\ [][NextCalls]_vars

---------------------------------------------------------------------------
(* Properties of the aggregators called in any order (SpecCalls) *)

\* C14: every aggregator returns its empty-input result without raising:
\* calculate_commit_metrics([]) gives total 0, zero averages, empty
\* most_active_hours and an empty commit_frequency mapping;
\* calculate_pr_metrics([]) gives zero counts, merge_rate 0 and
\* average_time_to_merge None; calculate_review_metrics([]) and
\* calculate_issue_metrics([]), with or without target_author, give zero
\* counts, zero rates and None averages; generate_time_series_data([], [], [])
\* gives [].
C14_EmptyInputResults ==
    /\ (op = "calculate_commit_metrics" /\ commits = <<>>) =>
           /\ Returned
           /\ result.value.total_commits = 0
           /\ FracEq(result.value.average_additions, Frac(0, 1))
           /\ FracEq(result.value.average_deletions, Frac(0, 1))
           /\ FracEq(result.value.average_files_changed, Frac(0, 1))
           /\ FracEq(result.value.commit_message_length_avg, Frac(0, 1))
           /\ result.value.most_active_hours = <<>>
           /\ DOMAIN result.value.commit_frequency = {}
    /\ (op = "calculate_pr_metrics" /\ pull_requests = <<>>) =>
           /\ Returned
           /\ result.value.total_prs = 0
           /\ result.value.merged_prs = 0
           /\ result.value.closed_prs = 0
           /\ result.value.open_prs = 0
           /\ FracEq(result.value.merge_rate, Frac(0, 1))
           /\ result.value.average_time_to_merge = None
    /\ (op = "calculate_review_metrics" /\ pull_requests = <<>>) =>
           /\ Returned
           /\ result.value.total_reviews_given = 0
           /\ result.value.total_reviews_received = 0
           /\ FracEq(result.value.approval_rate, Frac(0, 1))
           /\ FracEq(result.value.change_request_rate, Frac(0, 1))
           /\ FracEq(result.value.review_participation_rate, Frac(0, 1))
           /\ result.value.average_review_time = None
    /\ (op = "calculate_issue_metrics" /\ issues = <<>>) =>
           /\ Returned
           /\ result.value.total_issues = 0
           /\ result.value.closed_issues = 0
           /\ result.value.open_issues = 0
           /\ result.value.issues_created = 0
           /\ result.value.issues_assigned = 0
           /\ FracEq(result.value.resolution_rate, Frac(0, 1))
           /\ result.value.average_time_to_close = None
    /\ (/\ op = "generate_time_series_data"
        /\ commits = <<>> /\ pull_requests = <<>> /\ issues = <<>>) =>
           /\ Returned
           /\ result.value = <<>>

\* calculate_issue_metrics([], target_author = "user1") has returned
C14_Witness ==
    /\ op = "calculate_issue_metrics"
    /\ issues = <<>>
    /\ target_author = Some("user1")
    /\ Returned
    /\ result.value.total_issues = 0

\* calculate_commit_metrics([]) has returned
C14_WitnessCommits ==
    /\ op = "calculate_commit_metrics" /\ commits = <<>> /\ Returned
    /\ result.value.most_active_hours = <<>>

\* generate_time_series_data([], [], []) has returned
C14_WitnessSeries ==
    /\ op = "generate_time_series_data"
    /\ commits = <<>> /\ pull_requests = <<>> /\ issues = <<>>
    /\ result = Return(<<>>)

\* C16: no aggregator mutates its inputs: over every call of every aggregator
\* the commit, pull-request and issue lists, with every pull request's
\* reviews list, stay as they were, also in calculate_review_metrics without
\* a target author, whose pools are built from those review lists.
C16_InputsUnchanged ==
    [][/\ commits' = commits
       /\ pull_requests' = pull_requests
       /\ \A i \in DOMAIN pull_requests :
              pull_requests'[i].reviews = pull_requests[i].reviews
       /\ issues' = issues]_vars

\* calculate_review_metrics without a target author has pooled the review of
\* a pull request
C16_Witness ==
    /\ op = "calculate_review_metrics"
    /\ target_author = None
    /\ Len(pull_requests) = 1
    /\ Len(pull_requests[1].reviews) = 1
    /\ Returned
    /\ result.value.total_reviews_given = 1
    /\ result.value.total_reviews_received = 1

\* the keys of a mapping
Keys(mapping) == DOMAIN mapping

\* coding = 100*c/(c+4p), code_review = 100*4p/(c+4p), other = 0
WeightedPercentages(dist, c, p) ==
    /\ Keys(dist) = {"coding", "code_review", "other"}
    /\ FracEq(dist.coding, Frac(100 * c, c + 4 * p))
    /\ FracEq(dist.code_review, Frac(100 * 4 * p, c + 4 * p))
    /\ FracEq(dist.other, Frac(0, 1))
    /\ FracEq(Frac(dist.coding.num * dist.code_review.den
                     + dist.code_review.num * dist.coding.den,
                   dist.coding.den * dist.code_review.den), Frac(100, 1))
    /\ \A k \in Keys(dist) : FracLeq(Frac(0, 1), dist[k])

CalledDistribution == op = "_calculate_time_distribution"

\* C17 as claimed: time_distribution of c commits and p pull requests has
\* coding = 100*c/(c+4p), code_review = 100*4p/(c+4p) and other = 0 when
\* c + p > 0, so that coding + code_review = 100 and no value is negative;
\* when c = p = 0 the activity percentages are 0% and the remainder is
\* bucketed as 'other'.
C17_TimeDistribution ==
    CalledDistribution =>
        /\ Returned
        /\ LET c == Len(commits)
               p == Len(pull_requests)
               dist == result.value
           IN  IF c + p > 0 THEN WeightedPercentages(dist, c, p)
               ELSE /\ {"coding", "code_review", "other"} \subseteq Keys(dist)
                    /\ FracEq(dist.coding, Frac(0, 1))
                    /\ FracEq(dist.code_review, Frac(0, 1))

\* C17 amended: as claimed when c + p > 0; when c = p = 0 the mapping is
\* empty: it has no 'coding', no 'code_review' and no 'other' entry.
C17_TimeDistributionEmptyWhenNothing ==
    CalledDistribution =>
        /\ Returned
        /\ LET c == Len(commits)
               p == Len(pull_requests)
               dist == result.value
           IN  IF c + p > 0 THEN WeightedPercentages(dist, c, p)
               ELSE Keys(dist) = {}

\* one commit and one pull request: 20% coding, 80% code review
C17_Witness ==
    /\ CalledDistribution /\ Returned
    /\ Len(commits) = 1 /\ Len(pull_requests) = 1
    /\ FracEq(result.value.coding, Frac(20, 1))
    /\ FracEq(result.value.code_review, Frac(80, 1))

\* no commit and no pull request: the empty mapping
C17_WitnessEmpty ==
    /\ CalledDistribution /\ Returned
    /\ commits = <<>> /\ pull_requests = <<>>
    /\ Keys(result.value) = {}


---------------------------------------------------------------------------
(* Commit aggregation over commit lists at five hours of the day *)

InitHours ==
    /\ commits \in SeqUpTo(HourCommitValues, MaxHourCommits)
    /\ pull_requests = <<>>
    /\ issues = <<>>
    /\ period = "daily"
    /\ target_author = None
    /\ period_start = BaseTime
    /\ period_end = BaseTime
    /\ op = "none"
    /\ result = NoResult
    /\ request = NoRequest

NextHours == Call_calculate_commit_metrics

SpecHours == InitHours /\ [][NextHours]_vars

---------------------------------------------------------------------------
(* Properties of most_active_hours (SpecHours) *)

\* the hours of day of the commits
CommitHours == {HourOf(commits[i].timestamp) : i \in DOMAIN commits}

\* the positions of the commits at hour h
AtHour(h) == {i \in DOMAIN commits : HourOf(commits[i].timestamp) = h}

\* the position of the first commit at hour h
FirstAtHour(h) == CHOOSE i \in AtHour(h) : \A j \in AtHour(h) : i <= j

\* C18: most_active_hours holds at most 3 distinct hours of day (the 3 of the
\* top-3, all of them when the commits have fewer), ordered by commit count
\* descending; it has no hour with a lower count than an omitted hour, and
\* among hours with equal counts the hour whose first commit appears earlier
\* in the list comes first.
C18_MostActiveHours ==
    CalledCommit =>
        /\ Returned
        /\ LET hours == result.value.most_active_hours
               Listed == {hours[i] : i \in DOMAIN hours}
           IN  /\ Len(hours) <= 3
               /\ Len(hours) = Min(3, Cardinality(CommitHours))
               /\ Cardinality(Listed) = Len(hours)
               /\ Listed \subseteq CommitHours
               /\ \A i, j \in DOMAIN hours :
                      i < j =>
                          \/ Cardinality(AtHour(hours[i])) > Cardinality(AtHour(hours[j]))
                          \/ /\ Cardinality(AtHour(hours[i])) = Cardinality(AtHour(hours[j]))
                             /\ FirstAtHour(hours[i]) < FirstAtHour(hours[j])
               /\ \A h \in CommitHours \ Listed :
                      \A i \in DOMAIN hours :
                          Cardinality(AtHour(hours[i])) >= Cardinality(AtHour(h))

\* five commits at four hours: the hour with two commits comes first although
\* its first commit comes last, and of the three hours with one commit the one
\* omitted is the one that appears last
C18_Witness ==
    /\ CalledCommit /\ Returned
    /\ Len(commits) = 5
    /\ Cardinality(CommitHours) = 4
    /\ Len(result.value.most_active_hours) = 3
    /\ Cardinality(AtHour(result.value.most_active_hours[1])) = 2
    /\ FirstAtHour(result.value.most_active_hours[1]) = 4
    /\ result.value.most_active_hours[2] > result.value.most_active_hours[3]
    /\ \E h \in CommitHours :
           /\ \A i \in 1..3 : result.value.most_active_hours[i] # h
           /\ h < result.value.most_active_hours[3]


---------------------------------------------------------------------------
(* Properties of the velocity points (SpecSeries) *)

\* the dates the span is taken from
SpanDates ==
    {commits[i].timestamp : i \in DOMAIN commits}
        \cup {pull_requests[i].created_at : i \in DOMAIN pull_requests}
        \cup {issues[i].created_at : i \in DOMAIN issues}

\* midnight of the day of the earliest date
SpanStart ==
    LET first == CHOOSE t \in SpanDates : \A u \in SpanDates : t <= u
    IN  (first \div (24 * TicksPerHour)) * (24 * TicksPerHour)

\* the last instant of the day of the latest date
SpanEnd ==
    LET last == CHOOSE t \in SpanDates : \A u \in SpanDates : u <= t
    IN  ((last \div (24 * TicksPerHour)) + 1) * (24 * TicksPerHour) - 1

\* one granularity step: 1, 7, 30 or 90 days
StepTicks ==
    (CASE period = "daily" -> 1 [] period = "weekly" -> 7
       [] period = "monthly" -> 30 [] period = "quarterly" -> 90)
        * (24 * TicksPerHour)

\* the last instant of the bucket that starts at t
RangeEnd(t) == IF t + StepTicks - 1 <= SpanEnd THEN t + StepTicks - 1 ELSE SpanEnd

\* the sum of field(commits[i]) over the positions in idx
SumOver(idx, field) ==
    LET total[I \in SUBSET idx] ==
            IF I = {} THEN 0
            ELSE LET i == CHOOSE x \in I : TRUE
                 IN  commits[i][field] + total[I \ {i}]
    IN  total[idx]

\* C19: in every velocity point issues_closed is the number of issues whose
\* closed_at lies in the range of the bucket, an issue with no closed_at being
\* counted in no bucket; pull_requests is the number of pull requests whose
\* created_at lies in the range; additions and deletions are the sums over the
\* commits counted in the bucket.
C19_PointCounts ==
    (CalledSeries /\ SpanDates # {}) =>
        /\ Returned
        /\ \A k \in DOMAIN result.value :
               LET point == result.value[k]
                   lo    == point.timestamp
                   hi    == RangeEnd(point.timestamp)
                   Counted == {i \in DOMAIN commits :
                                  lo <= commits[i].timestamp /\ commits[i].timestamp <= hi}
               IN  /\ point.issues_closed =
                          Cardinality({i \in DOMAIN issues :
                                          /\ issues[i].closed_at # None
                                          /\ lo <= Get(issues[i].closed_at)
                                          /\ Get(issues[i].closed_at) <= hi})
                   /\ point.pull_requests =
                          Cardinality({i \in DOMAIN pull_requests :
                                          /\ lo <= pull_requests[i].created_at
                                          /\ pull_requests[i].created_at <= hi})
                   /\ point.commits = Cardinality(Counted)
                   /\ point.additions = SumOver(Counted, "additions")
                   /\ point.deletions = SumOver(Counted, "deletions")
        /\ (\A i \in DOMAIN issues : issues[i].closed_at = None) =>
               \A k \in DOMAIN result.value : result.value[k].issues_closed = 0

\* daily points over a week: the issue created on the first day is counted
\* closed in the point of the third day, the pull request in the first point
C19_Witness ==
    /\ CalledSeries /\ Returned
    /\ period = "daily"
    /\ Len(result.value) = 8
    /\ Len(issues) = 1 /\ Len(pull_requests) = 1
    /\ result.value[1].issues_closed = 0
    /\ result.value[3].issues_closed = 1
    /\ result.value[1].pull_requests = 1
    /\ result.value[8].additions = 20

\* a weekly point with two commits of different sizes
C19_WitnessSums ==
    /\ CalledSeries /\ Returned
    /\ period = "weekly"
    /\ Len(result.value) = 1
    /\ result.value[1].commits = 2
    /\ result.value[1].additions = 30
    /\ result.value[1].deletions = 15

\* the issues that have a closed_at
IssuesWithClosedAt == {i \in DOMAIN issues : issues[i].closed_at # None}

\* the sum of issues_closed over the returned points
SumOfIssuesClosed ==
    SumSeq([k \in DOMAIN result.value |-> result.value[k].issues_closed])

\* C28: the span of generate_time_series_data is taken from the commit
\* timestamps and the created_at of pull requests and issues only, so the
\* issues_closed of all points sum to the number of issues whose closed_at
\* lies within the span: an issue closed after the end of the day of the
\* latest such date is counted in no point, and the sum is never larger than
\* the number of issues that have a closed_at.
C28_ClosedAfterSpanUncounted ==
    (CalledSeries /\ SpanDates # {}) =>
        /\ Returned
        /\ SumOfIssuesClosed =
               Cardinality({i \in IssuesWithClosedAt :
                               /\ SpanStart <= Get(issues[i].closed_at)
                               /\ Get(issues[i].closed_at) <= SpanEnd})
        /\ SumOfIssuesClosed <= Cardinality(IssuesWithClosedAt)
        /\ \A i \in IssuesWithClosedAt :
               Get(issues[i].closed_at) > SpanEnd =>
                   \A k \in DOMAIN result.value :
                       ~(/\ result.value[k].timestamp <= Get(issues[i].closed_at)
                         /\ Get(issues[i].closed_at) <= RangeEnd(result.value[k].timestamp))

\* an issue closed after the span: the points count no closed issue
C28_Witness ==
    /\ CalledSeries /\ Returned
    /\ Len(issues) = 1
    /\ issues[1].closed_at # None
    /\ Get(issues[1].closed_at) > SpanEnd
    /\ Len(result.value) >= 1
    /\ SumOfIssuesClosed = 0
    /\ Cardinality(IssuesWithClosedAt) = 1

---------------------------------------------------------------------------
(* The buckets of the span of commit and pull-request lists, every          *)
(* granularity                                                             *)

InitBuckets ==
    /\ commits \in SeqUpTo(SeriesCommitValues, MaxSeriesCommits)
    /\ pull_requests \in SeqUpTo(SeriesPRValues, MaxEach)
    /\ issues = <<>>
    /\ period \in MetricPeriod
    /\ target_author = None
    /\ period_start = BaseTime
    /\ period_end = BaseTime
    /\ op = "none"
    /\ result = NoResult
    /\ request = NoRequest

NextBuckets == Call__generate_time_buckets

SpecBuckets == InitBuckets /\ [][NextBuckets]_vars

---------------------------------------------------------------------------
(* Properties of _generate_time_buckets (SpecBuckets) *)

CalledBuckets == op = "_generate_time_buckets"

\* the instants looked at: the dates of the lists, the ends of the span and
\* the instants at and next to the ends of every bucket
InstantsOf(buckets) ==
    {t \in SpanDates \cup {SpanStart, SpanEnd}
           \cup UNION {{buckets[k][1] - 1, buckets[k][1], buckets[k][1] + 1,
                        buckets[k][2] - 1, buckets[k][2], buckets[k][2] + 1} :
                          k \in DOMAIN buckets} :
        SpanStart <= t /\ t <= SpanEnd}

\* C20: the buckets of a span are contiguous and do not overlap: the first one
\* starts at the span start (midnight of the day of the earliest timestamp),
\* each next one starts exactly one granularity step (1, 7, 30 or 90 days)
\* after the previous start, no instant of the span lies in two buckets or in
\* none, and the end of the last bucket is clipped to the span end, so that no
\* bucket extends past it.
C20_BucketsPartitionSpan ==
    CalledBuckets =>
        /\ Returned
        /\ LET buckets == result.value
               n       == Len(buckets)
           IN  /\ n >= 1
               /\ buckets[1][1] = SpanStart
               /\ \A k \in 1..(n - 1) :
                      /\ buckets[k + 1][1] = buckets[k][1] + StepTicks
                      /\ buckets[k + 1][1] = buckets[k][2] + 1
               /\ \A k \in 1..n :
                      /\ buckets[k][1] <= buckets[k][2]
                      /\ buckets[k][2] <= SpanEnd
               /\ buckets[n][2] = SpanEnd
               /\ \A t \in InstantsOf(buckets) :
                      Cardinality({k \in 1..n :
                                      buckets[k][1] <= t /\ t <= buckets[k][2]}) = 1

\* two weekly buckets, the second one clipped to the end of its first day
C20_Witness ==
    /\ CalledBuckets /\ Returned
    /\ period = "weekly"
    /\ Len(result.value) = 2
    /\ result.value[2][1] = result.value[1][1] + StepTicks
    /\ result.value[2][2] = SpanEnd
    /\ result.value[2][2] < result.value[2][1] + StepTicks - 1


---------------------------------------------------------------------------
(* Properties of the bucket boundaries (SpecSeries) *)

\* the commits, pull requests and issues the point counts are those dated
\* from lo to hi, both instants included
CountsWithin(point, lo, hi) ==
    /\ point.commits =
           Cardinality({i \in DOMAIN commits :
                           lo <= commits[i].timestamp /\ commits[i].timestamp <= hi})
    /\ point.pull_requests =
           Cardinality({i \in DOMAIN pull_requests :
                           /\ lo <= pull_requests[i].created_at
                           /\ pull_requests[i].created_at <= hi})
    /\ point.issues_closed =
           Cardinality({i \in DOMAIN issues :
                           /\ issues[i].closed_at # None
                           /\ lo <= Get(issues[i].closed_at)
                           /\ Get(issues[i].closed_at) <= hi})

\* C21 as claimed: the range of a bucket is inclusive at both ends and the
\* boundary instant is shared by adjacent buckets: what is dated exactly at
\* the start of bucket k+1 is within the range of bucket k as well as of
\* bucket k+1.
C21_BoundaryShared ==
    (CalledSeries /\ SpanDates # {}) =>
        /\ Returned
        /\ \A k \in DOMAIN result.value :
               CountsWithin(result.value[k], result.value[k].timestamp,
                            IF k < Len(result.value)
                            THEN result.value[k + 1].timestamp
                            ELSE SpanEnd)

\* C21 amended: the range of a bucket is inclusive at both ends and ends on
\* the instant before the start of the next bucket: what is dated exactly at
\* the start of bucket k+1 is within the range of bucket k+1 only, what is
\* dated one instant earlier within the range of bucket k only.
C21_BoundaryInNextBucketOnly ==
    (CalledSeries /\ SpanDates # {}) =>
        /\ Returned
        /\ \A k \in DOMAIN result.value :
               CountsWithin(result.value[k], result.value[k].timestamp,
                            IF k < Len(result.value)
                            THEN result.value[k + 1].timestamp - 1
                            ELSE SpanEnd)

\* daily points: a commit on the last instant of the first day is counted in
\* the first point, a commit on the first instant of the second day in the
\* second point only
C21_Witness ==
    /\ CalledSeries /\ Returned
    /\ period = "daily"
    /\ Len(commits) = 2
    /\ commits[1].timestamp = SeriesStart + Days(1) - 1
    /\ commits[2].timestamp = SeriesStart + Days(1)
    /\ Len(result.value) = 2
    /\ result.value[2].timestamp = SeriesStart + Days(1)
    /\ result.value[1].commits = 1
    /\ result.value[2].commits = 1


---------------------------------------------------------------------------
(* Properties of the order and number of the velocity points (SpecSeries) *)

\* the days of one step of a granularity
StepDays(p) ==
    CASE p = "daily" -> 1 [] p = "weekly" -> 7
      [] p = "monthly" -> 30 [] p = "quarterly" -> 90

\* C22: the points are ordered by timestamp strictly ascending, the timestamp
\* of each point is the start of its bucket, and a coarser granularity never
\* gives more points than a finer one on the same lists (weekly <= daily).
C22_PointsAscendingCoarserFewer ==
    (CalledSeries /\ SpanDates # {}) =>
        /\ Returned
        /\ \A k \in DOMAIN result.value :
               result.value[k].timestamp = SpanStart + (k - 1) * StepTicks
        /\ \A j, k \in DOMAIN result.value :
               j < k => result.value[j].timestamp < result.value[k].timestamp
        /\ \A finer \in MetricPeriod :
               StepDays(finer) < StepDays(period) =>
                   LET other == generate_time_series_data(commits, pull_requests,
                                                          issues, finer)
                   IN  /\ other.status = "returned"
                       /\ Len(result.value) <= Len(other.value)

\* two weekly points where the daily points of the same lists are eight
C22_Witness ==
    /\ CalledSeries /\ Returned
    /\ period = "weekly"
    /\ Len(result.value) = 2
    /\ result.value[1].timestamp < result.value[2].timestamp
    /\ Len(generate_time_series_data(commits, pull_requests, issues, "daily").value) = 8


---------------------------------------------------------------------------
(* The derived properties of every accepted pull request and issue *)

InitDerived ==
    /\ pull_requests \in {<<pr>> : pr \in PullRequestValues}
    /\ issues \in {<<issue>> : issue \in IssueValues}
    /\ commits = <<>>
    /\ period = "daily"
    /\ target_author = None
    /\ period_start = BaseTime
    /\ period_end = BaseTime
    /\ op = "none"
    /\ result = NoResult
    /\ request = NoRequest

NextDerived ==
    \/ Call_time_to_merge
    \/ Call_time_to_close

SpecDerived == InitDerived /\ [][NextDerived]_vars

---------------------------------------------------------------------------
(* Properties of time_to_merge and time_to_close (SpecDerived) *)

\* C23: time_to_merge is None whenever the pull request is not merged (state
\* MERGED with a merged_at), and time_to_close is None whenever the issue is
\* open (not state CLOSED with a closed_at); they are a number of hours only
\* for merged pull requests and closed issues.
C23_NoneUnlessMergedOrClosed ==
    /\ op = "time_to_merge" =>
           /\ Returned
           /\ ~(pull_requests[1].state = "merged" /\ pull_requests[1].merged_at # None)
                  => result.value = None
    /\ op = "time_to_close" =>
           /\ Returned
           /\ ~(issues[1].state = "closed" /\ issues[1].closed_at # None)
                  => result.value = None

---------------------------------------------------------------------------
(* Properties of the weekly grouping (SpecCommit) *)

\* the day number of the Monday of the ISO week of t
MondayOf(t) == DayOf(t) - (IsoWeekday(DayOf(t)) - 1)

\* C24: the weekly grouping of commit_frequency is by ISO week: two commits
\* are counted under the same weekly key if and only if they fall in the same
\* ISO week, the last days of December and the first days of January included.
C24_WeeklyKeyIsIsoWeek ==
    (CalledCommit /\ commits # <<>>) =>
        /\ Returned
        /\ LET weekly == result.value.commit_frequency.weekly
           IN  /\ Cardinality(DOMAIN weekly) =
                      Cardinality({MondayOf(commits[i].timestamp) : i \in DOMAIN commits})
               /\ \A i \in DOMAIN commits :
                      /\ week_key(commits[i].timestamp) \in DOMAIN weekly
                      /\ weekly[week_key(commits[i].timestamp)] =
                             Cardinality({j \in DOMAIN commits :
                                             MondayOf(commits[j].timestamp)
                                                 = MondayOf(commits[i].timestamp)})


---------------------------------------------------------------------------
(* A call of _make_request for every retry budget, client and sequence of  *)
(* responses and network failures                                          *)

InitRequest ==
    /\ \E max_retries \in -1..MaxRetries, client \in ClientValues :
           request = [pc |-> "loop", attempt |-> 0, max_retries |-> max_retries,
                      now |-> CallTime,
                      rate_limit_remaining |-> client.rate_limit_remaining,
                      rate_limit_reset |-> client.rate_limit_reset,
                      log |-> <<>>]
    /\ commits = <<>>
    /\ pull_requests = <<>>
    /\ issues = <<>>
    /\ period = "daily"
    /\ target_author = None
    /\ period_start = BaseTime
    /\ period_end = BaseTime
    /\ op = "none"
    /\ result = NoResult

NextRequest ==
    \/ Attempt_Response
    \/ Attempt_RequestException
    \/ Loop_Exhausted

SpecRequest == InitRequest /\ [][NextRequest]_vars

\* the call goes on: every step of the loop is a step of the one thread
SpecRequestFair == SpecRequest /\ WF_vars(NextRequest)


---------------------------------------------------------------------------
(* Properties of _make_request *)

\* the call of _make_request is over
RequestDone == request.pc = "done"

\* the positions of the log at which session.request was called
RequestsSent == {i \in 1..Len(request.log) : request.log[i].kind = "request"}

\* the positions of the log at which time.sleep was called
Sleeps == {i \in 1..Len(request.log) : request.log[i].kind = "sleep"}

\* the call has returned a response or raised one of the two client errors
ReturnedOrRaisedClientError ==
    \/ result.status = "returned" /\ result.value \in ResponseValues
    \/ result.status = "raised"
           /\ result.error.type \in {"GitHubRateLimitError", "GitHubAPIError"}

\* a request answered with a success ends the call, which returns that answer
SuccessIsReturned ==
    \A i \in RequestsSent :
        (request.log[i].came # None /\ Get(request.log[i].came).status_code = 200)
            => /\ RequestDone
               /\ \A j \in RequestsSent : j <= i
               /\ result = Return(Get(request.log[i].came))

\* at most max_retries + 1 requests, an outcome of the three kinds, a success
\* returned, no sleep after the last request
RequestBudgetKept ==
    /\ Cardinality(RequestsSent) <= request.max_retries + 1
    /\ RequestDone => ReturnedOrRaisedClientError
    /\ SuccessIsReturned
    /\ RequestDone => \A i \in Sleeps : \E j \in RequestsSent : i < j

\* C25 as claimed: with max_retries >= 0 a call of _make_request sends at
\* most max_retries + 1 requests, sleeps only between two attempts (a request
\* before every sleep, and one after it once the call is over), ends by
\* returning a response or raising GitHubRateLimitError or GitHubAPIError,
\* and returns a success that follows retried failures.
C25_SleepsOnlyBetweenAttempts ==
    /\ [](request.max_retries >= 0 =>
            /\ RequestBudgetKept
            /\ \A i \in Sleeps : \E j \in RequestsSent : j < i)
    /\ <>RequestDone

\* C25 amended: with max_retries >= 0 a call of _make_request sends at most
\* max_retries + 1 requests, sleeps only before a request it goes on to send
\* (the backoff after a failure it retries, or the wait of _check_rate_limit,
\* which may come before the first request), never after the last request,
\* ends by returning a response or raising GitHubRateLimitError or
\* GitHubAPIError, and returns a success that follows retried failures.
C25_BoundedRequestsSleepsBeforeRequests ==
    /\ [](request.max_retries >= 0 =>
            /\ RequestBudgetKept
            /\ \A i \in Sleeps :
                   \/ \E j \in RequestsSent : j < i
                   \/ /\ i = 1
                      /\ request.log[i].wait_time > 0
                      /\ Len(request.log) > i => request.log[i + 1].kind = "request")
    /\ <>RequestDone

\* a rate-limit refusal, the backoff, then a success that is returned
C25_Witness ==
    /\ RequestDone
    /\ Len(request.log) = 3
    /\ request.log[1].kind = "request"
    /\ request.log[1].came # None
    /\ Get(request.log[1].came).status_code = 403
    /\ Get(request.log[1].came).rate_limit_text
    /\ request.log[2].kind = "sleep"
    /\ request.log[3].kind = "request"
    /\ request.log[3].came # None
    /\ result = Return(Get(request.log[3].came))
    /\ result.value.status_code = 200

\* the wait of _check_rate_limit comes before the first request
C25_WitnessSleepBeforeFirstRequest ==
    /\ RequestDone
    /\ request.max_retries >= 0
    /\ Len(request.log) >= 2
    /\ request.log[1].kind = "sleep"
    /\ request.log[2].kind = "request"


\* what came of the last request sent
LastRequest == request.log[CHOOSE i \in RequestsSent : \A j \in RequestsSent : j <= i]

\* the retry budget is used up: max_retries + 1 requests were sent
BudgetExhausted ==
    /\ RequestDone
    /\ request.max_retries >= 0
    /\ Cardinality(RequestsSent) = request.max_retries + 1

\* every request was answered with a 403 whose text holds 'rate limit'
EveryAttemptRateLimited ==
    \A i \in RequestsSent :
        /\ request.log[i].came # None
        /\ Get(request.log[i].came).status_code = 403
        /\ Get(request.log[i].came).rate_limit_text

\* every request raised a RequestException
EveryAttemptFailed == \A i \in RequestsSent : request.log[i].came = None

\* C26: when the retry budget of _make_request is used up, an error raised
\* matches the last failure: after a rate-limit 403 it is GitHubRateLimitError
\* with the reset time of that response's X-RateLimit-Reset header (None when
\* absent) and after a RequestException it is GitHubAPIError 'Request failed
\* after N retries', N = max_retries; if every attempt got a rate-limit 403 the
\* first is raised, if every attempt raised a RequestException the second,
\* and neither case returns a response.
C26_ErrorMatchesLastFailure ==
    BudgetExhausted =>
        /\ result.status = "raised" =>
               IF LastRequest.came = None
               THEN result.error = [type |-> "GitHubAPIError",
                                    message |-> "Request failed after N retries",
                                    N |-> request.max_retries]
               ELSE /\ Get(LastRequest.came).status_code = 403
                    /\ Get(LastRequest.came).rate_limit_text
                    /\ result.error = [type |-> "GitHubRateLimitError",
                                       message |-> "Rate limit exceeded",
                                       reset_time |-> Get(LastRequest.came).headers.reset]
        /\ EveryAttemptRateLimited =>
               /\ result.status = "raised"
               /\ result.error.type = "GitHubRateLimitError"
               /\ result.error.reset_time = Get(LastRequest.came).headers.reset
        /\ EveryAttemptFailed =>
               /\ result.status = "raised"
               /\ result.error.type = "GitHubAPIError"
               /\ result.error.message = "Request failed after N retries"
               /\ result.error.N = request.max_retries

\* three rate-limit refusals use up a budget of two retries, the last one
\* naming its reset time
C26_Witness ==
    /\ BudgetExhausted
    /\ request.max_retries = 2
    /\ EveryAttemptRateLimited
    /\ Get(LastRequest.came).headers.reset # None
    /\ result.status = "raised"

\* three network failures use up a budget of two retries
C26_WitnessNetwork ==
    /\ BudgetExhausted
    /\ request.max_retries = 2
    /\ EveryAttemptFailed
    /\ result.status = "raised"

\* C27: in _make_request with max_retries >= 0 a 5xx response to the final
\* attempt is returned as an ordinary response, and the raise of 'Maximum
\* retries exceeded' after the loop is never reached: the call ends in the
\* attempt that sends the last request, by a return or by one of the raises
\* inside the loop.
C27_Final5xxReturnedTrailingRaiseUnreachable ==
    request.max_retries >= 0 =>
        /\ (BudgetExhausted /\ LastRequest.came # None
                /\ Get(LastRequest.came).status_code >= 500)
               => result = [status |-> "returned", value |-> Get(LastRequest.came)]
        /\ ~ENABLED Loop_Exhausted
        /\ RequestDone =>
               /\ RequestsSent # {}
               /\ request.log[Len(request.log)].kind = "request"
               /\ \/ result.status = "returned"
                  \/ /\ result.status = "raised"
                     /\ result.error.message # "Maximum retries exceeded"

\* a server error on each of three attempts: the third is returned
C27_Witness ==
    /\ BudgetExhausted
    /\ request.max_retries = 2
    /\ \A i \in RequestsSent :
           /\ request.log[i].came # None
           /\ Get(request.log[i].came).status_code = 500
    /\ result.status = "returned"
    /\ result.value.status_code = 500


---------------------------------------------------------------------------
(* Properties of calculate_productivity_metrics and its sub-aggregates     *)
(* (SpecAggregate)                                                         *)

\* C29: calculate_productivity_metrics does not filter by the period: for
\* every period_start < period_end it returns metrics whose totals are the
\* lengths of the three lists, entities outside the period included, whose
\* sub-aggregates are those of the four aggregators called on their own
\* without target author, and whose velocity_trends are the daily series.
C29_UnfilteredSubAggregates ==
    (CalledAggregate /\ period_start < period_end) =>
        /\ Returned
        /\ result.value.commit_metrics.total_commits = Len(commits)
        /\ result.value.pr_metrics.total_prs = Len(pull_requests)
        /\ result.value.issue_metrics.total_issues = Len(issues)
        /\ Return(result.value.commit_metrics) = calculate_commit_metrics(commits)
        /\ Return(result.value.pr_metrics) = calculate_pr_metrics(pull_requests)
        /\ Return(result.value.review_metrics) =
               calculate_review_metrics(pull_requests, None)
        /\ Return(result.value.issue_metrics) = calculate_issue_metrics(issues, None)
        /\ Return(result.value.velocity_trends) =
               generate_time_series_data(commits, pull_requests, issues, "daily")

\* the pull requests with state MERGED and no merged_at
MergedWithoutMergedAt ==
    {i \in DOMAIN pull_requests :
        pull_requests[i].state = "merged" /\ pull_requests[i].merged_at = None}

\* C30: a pull-request list holding a pull request with state MERGED and no
\* merged_at makes calculate_pr_metrics raise the ValueError of the PRMetrics
\* validation (the counts do not sum to the total) and return no metrics, and
\* calculate_productivity_metrics raises the same error.
C30_MergedWithoutMergedAtRaises ==
    ((CalledPR \/ CalledAggregate) /\ MergedWithoutMergedAt # {}) =>
        /\ Raised
        /\ ~Returned
        /\ result.error = "ValueError: PR counts must sum to total"

\* calculate_pr_metrics on such a list
C30_Witness ==
    /\ CalledPR
    /\ MergedWithoutMergedAt # {}
    /\ Raised

\* calculate_productivity_metrics on such a list, with a valid period
C30_WitnessAggregate ==
    /\ CalledAggregate
    /\ MergedWithoutMergedAt # {}
    /\ period_start < period_end
    /\ Raised

===========================================================================
